---------------------------- MODULE Spec2Model ----------------------------
(***************************************************************************)
(* State-machine model of the LTV watch bot (vsezol/kamino-ltv):           *)
(*   - the Kamino market catalog and position scanner   (src/kamino.js)    *)
(*   - the JSON user / market store                     (db.js, split)     *)
(*   - the Telegram bot: commands, menu actions, the background sweep      *)
(*     and the background catalog refresh               (src/bot.js)       *)
(*                                                                         *)
(* Numbers.  Health factors and thresholds are JavaScript doubles.  They   *)
(* are modelled in hundredths (1.33 -> 133) as records                     *)
(*   [kind |-> "num", v |-> 133], [kind |-> "inf", ...], [kind |-> "nan"]  *)
(* so that the non-finite results of a division by zero stay distinct and  *)
(* compare the way IEEE-754 does (every comparison with NaN is false).     *)
(* Percentages (ltv, liquidationLtv) are modelled in basis points, i.e.    *)
(* the two-decimal string "60.00" is 6000.                                 *)
(***************************************************************************)
EXTENDS Integers, Sequences, FiniteSets, TLC

VARIABLES
    markets,        \* kaminoDb.markets: the cached Kamino market catalog
    aaveMarkets,    \* aaveDb.aaveMarkets: the cached reserve list of each network
    refresh,        \* the init() / refreshMarketsBackground() run in progress
    fetched,        \* outcome of the last fetchMarkets() call seen by its caller
    scan,           \* the scanner call in flight in the scanner service
    rendered,       \* the last status line produced by formatPosition
    db,             \* kaminoDb.users / aaveDb.users and the user objects in use
    sweeps,         \* the checkAllUsers() runs: position and locals
    cmd,            \* the asynchronous command handler in flight
    sent,           \* bot.telegram.sendMessage calls made by the last step
    reply,          \* ctx.reply made by the last step, and what it answers
    log,            \* the scans begun, passed over or resolved in the last step
    shown,          \* the wallets menu each chat has on screen
    notified        \* wallets the sweep has sent a message about so far

botVars == <<db, sweeps, cmd, sent, reply, log, shown, notified>>

vars == <<markets, aaveMarkets, refresh, fetched, scan, rendered, db, sweeps,
          cmd, sent, reply, log, shown, notified>>

-----------------------------------------------------------------------------
(* Generic helpers *)

RECURSIVE SeqsUpTo(_, _)
SeqsUpTo(S, n) ==
    IF n = 0 THEN {<<>>}
    ELSE LET shorter == SeqsUpTo(S, n - 1)
         IN  shorter \cup {Append(s, x) : s \in shorter, x \in S}

Range(s) == {s[i] : i \in 1..Len(s)}

-----------------------------------------------------------------------------
(* Numbers *)

Num(v) == [kind |-> "num", v |-> v]
PosInf == [kind |-> "inf", v |-> 0]
NegInf == [kind |-> "-inf", v |-> 0]
NaN    == [kind |-> "nan", v |-> 0]

IsFinite(x) == x.kind = "num"

\* JavaScript a <= b on doubles (b finite in every use below)
Leq(a, b) ==
    \/ a.kind = "num" /\ b.kind = "num" /\ a.v <= b.v
    \/ a.kind = "-inf" /\ b.kind = "num"

\* JavaScript a > b on doubles
Gt(a, b) ==
    \/ a.kind = "num" /\ b.kind = "num" /\ a.v > b.v
    \/ a.kind = "inf" /\ b.kind = "num"

-----------------------------------------------------------------------------
(* The external Kamino API *)

MainMarket == [name |-> "Main", lendingMarket |-> "pkMain"]
JlpMarket  == [name |-> "JLP",  lendingMarket |-> "pkJLP"]

MarketNames == {"Main", "JLP"}

\* What GET /v2/kamino-market may answer with (a full list in one response)
CatalogResponses ==
    { <<>>, <<MainMarket>>, <<JlpMarket>>,
      <<MainMarket, JlpMarket>>, <<JlpMarket, MainMarket>> }

\* Obligations as the API returns them.  loanToValue and liquidationLtv are
\* fractions, held here in millionths (0.60 -> 600000); the dollar amounts
\* are held in cents.  An obligation without deposit reports loanToValue 0.
OblRisky    == [stats |-> TRUE,  userTotalBorrow |-> 100, userTotalDeposit |-> 167,
                loanToValue |-> 600000, liquidationLtv |-> 800000]
OblSafe     == [stats |-> TRUE,  userTotalBorrow |-> 100, userTotalDeposit |-> 250,
                loanToValue |-> 400000, liquidationLtv |-> 800000]
OblNoBorrow == [stats |-> TRUE,  userTotalBorrow |-> 0,   userTotalDeposit |-> 250,
                loanToValue |-> 0,      liquidationLtv |-> 800000]
OblNoLtv    == [stats |-> TRUE,  userTotalBorrow |-> 100, userTotalDeposit |-> 0,
                loanToValue |-> 0,      liquidationLtv |-> 800000]
OblNoStats  == [stats |-> FALSE, userTotalBorrow |-> 0,   userTotalDeposit |-> 0,
                loanToValue |-> 0,      liquidationLtv |-> 0]

\* What one getObligations(market, wallet) call may do: throw (non-404 error,
\* transport error) or return a list (a 404 is the empty list)
QueryFailed == [ok |-> FALSE, obligations |-> <<>>]
QueryOk(obls) == [ok |-> TRUE, obligations |-> obls]

QueryOutcomes ==
    { QueryFailed, QueryOk(<<>>), QueryOk(<<OblRisky>>), QueryOk(<<OblSafe>>),
      QueryOk(<<OblNoBorrow>>), QueryOk(<<OblNoStats, OblRisky>>),
      QueryOk(<<OblRisky, OblSafe>>), QueryOk(<<OblNoLtv>>) }

-----------------------------------------------------------------------------
(* src/kamino.js *)

\* Math.round(liquidationLtv / ltv * 100) / 100, in hundredths
HealthFactorOf(liquidationLtv, ltv) ==
    IF ltv = 0
    THEN IF liquidationLtv = 0 THEN NaN ELSE PosInf
    ELSE Num((200 * liquidationLtv + ltv) \div (2 * ltv))

NoPosition == [market |-> "", ltv |-> 0, liquidationLtv |-> 0, healthFactor |-> NaN, none |-> TRUE]

\* Millionths of a fraction in one hundredth of a percent
PerHundredth == 100

\* A mutant of the rendering: the digits after the second decimal are cut
toFixed_Truncates(percentage) == percentage \div PerHundredth

\* (parseFloat(fraction) * 100).toFixed(2): the percentage to the nearest
\* hundredth, in hundredths of a percent ("60.00" is 6000).  The fraction
\* is not negative; a value halfway between two hundredths goes by its
\* binary expansion and is rendered here as the upper one.
toFixed(percentage) == (2 * percentage + PerHundredth) \div (2 * PerHundredth)

\* The healthFactor is computed from the unrendered percentages
parseObligation(obl, marketName) ==
    IF ~obl.stats \/ obl.userTotalBorrow <= 0
    THEN NoPosition
    ELSE [market         |-> marketName,
          ltv            |-> toFixed(obl.loanToValue),
          liquidationLtv |-> toFixed(obl.liquidationLtv),
          healthFactor   |-> HealthFactorOf(obl.liquidationLtv, obl.loanToValue),
          none           |-> FALSE]

\* for (const obl of obligations) { pos = parseObligation(..); if (pos) results.push(pos) }
RECURSIVE PushPositions(_, _, _)
PushPositions(results, obligations, marketName) ==
    IF obligations = <<>> THEN results
    ELSE LET pos == parseObligation(Head(obligations), marketName)
         IN  PushPositions(IF pos.none THEN results ELSE Append(results, pos),
                           Tail(obligations), marketName)

\* A mutant of the loop body: a failed query discards what was accumulated
ScanMarket_AbortOnFailure(results, market, outcome) ==
    IF outcome.ok
    THEN PushPositions(results, outcome.obligations, market.name)
    ELSE <<>>

\* The body of the per-market loop: try { getObligations; push } catch { log }
ScanMarket(results, market, outcome) ==
    IF outcome.ok
    THEN PushPositions(results, outcome.obligations, market.name)
    ELSE results

\* A mutant of the filter: the name list is ignored (an implicit full scan)
FilterByNames_All(allMarkets, marketNames) == allMarkets

\* allMarkets.filter(m => marketNames.includes(m.name))
RECURSIVE FilterByNames(_, _)
FilterByNames(allMarkets, marketNames) ==
    IF allMarkets = <<>> THEN <<>>
    ELSE LET rest == FilterByNames(Tail(allMarkets), marketNames)
         IN  IF Head(allMarkets).name \in Range(marketNames)
             THEN <<Head(allMarkets)>> \o rest
             ELSE rest

\* No scanner call is in flight
NoScan == [fn |-> "none", status |-> "idle"]

\* The locals of a scanner call when it starts
NewScan ==
    [fn |-> "none", marketNames |-> <<>>, allMarkets |-> <<>>,
     markets |-> <<>>, results |-> <<>>,
     callback |-> FALSE, index |-> 0, progress |-> <<>>,
     queried |-> <<>>, outcomes |-> <<>>, status |-> "idle"]

\* fetchMarkets(): response ok, JSON body `list`; setMarkets(list)
FetchMarketsOk(list) ==
    /\ markets' = list
    /\ fetched' = [ok |-> TRUE, markets |-> list]

\* A mutant of the failed fetch: the failure resets the cached catalog
FetchMarketsFail_ClearsCache ==
    /\ fetched' = [ok |-> FALSE, markets |-> <<>>]
    /\ markets' = <<>>

\* fetchMarkets(): fetch rejects or !response.ok -> throws before setMarkets
FetchMarketsFail ==
    /\ fetched' = [ok |-> FALSE, markets |-> <<>>]
    /\ UNCHANGED markets

\* scanAllMarketsForWallet up to its first await
ScanAllBegin(cb) ==
    /\ scan.status = "idle"
    /\ scan' = [NewScan EXCEPT
                  !.fn = "scanAllMarketsForWallet",
                  !.allMarkets = markets,
                  !.markets = markets,
                  !.callback = cb,
                  !.status = IF markets = <<>> THEN "threw" ELSE "running"]
    /\ UNCHANGED <<markets, aaveMarkets, refresh, fetched, rendered, botVars>>

\* checkSpecificMarkets up to its first await
CheckSpecificBegin(marketNames) ==
    /\ scan.status = "idle"
    /\ scan' = [NewScan EXCEPT
                  !.fn = "checkSpecificMarkets",
                  !.marketNames = marketNames,
                  !.allMarkets = markets,
                  !.markets = IF markets = <<>> THEN <<>>
                              ELSE FilterByNames(markets, marketNames),
                  !.status = IF markets = <<>> THEN "threw" ELSE "running"]
    /\ UNCHANGED <<markets, aaveMarkets, refresh, fetched, rendered, botVars>>

\* A mutant of the iteration: the callback is skipped for a failed market
ScanStep_CallbackOnSuccessOnly(outcome) ==
    /\ scan.status = "running"
    /\ Len(scan.outcomes) < Len(scan.markets)
    /\ LET market == scan.markets[Len(scan.outcomes) + 1]
           full   == scan.fn = "scanAllMarketsForWallet"
       IN  scan' = [scan EXCEPT
                      !.results  = ScanMarket(scan.results, market, outcome),
                      !.queried  = Append(@, market.lendingMarket),
                      !.outcomes = Append(@, outcome),
                      !.index    = IF full /\ outcome.ok THEN @ + 1 ELSE @,
                      !.progress = IF full /\ scan.callback /\ outcome.ok
                                   THEN Append(@, [current |-> scan.index,
                                                   total   |-> Len(scan.markets)])
                                   ELSE @]
    /\ UNCHANGED <<markets, aaveMarkets, refresh, fetched, rendered, botVars>>

\* One iteration of the for-of loop of either scan
ScanStep(outcome) ==
    /\ scan.status = "running"
    /\ Len(scan.outcomes) < Len(scan.markets)
    /\ LET market == scan.markets[Len(scan.outcomes) + 1]
           full   == scan.fn = "scanAllMarketsForWallet"
       IN  scan' = [scan EXCEPT
                      !.results  = ScanMarket(scan.results, market, outcome),
                      !.queried  = Append(@, market.lendingMarket),
                      !.outcomes = Append(@, outcome),
                      !.index    = IF full THEN @ + 1 ELSE @,
                      !.progress = IF full /\ scan.callback
                                   THEN Append(@, [current |-> scan.index,
                                                   total   |-> Len(scan.markets)])
                                   ELSE @]
    /\ UNCHANGED <<markets, aaveMarkets, refresh, fetched, rendered, botVars>>

\* return results
ScanReturn ==
    /\ scan.status = "running"
    /\ Len(scan.outcomes) = Len(scan.markets)
    /\ scan' = [scan EXCEPT !.status = "returned"]
    /\ UNCHANGED <<markets, aaveMarkets, refresh, fetched, rendered, botVars>>

\* The caller has consumed the result (or the error)
ScanDone ==
    /\ scan.status \in {"returned", "threw"}
    /\ scan' = NoScan
    /\ UNCHANGED <<markets, aaveMarkets, refresh, fetched, rendered, botVars>>

-----------------------------------------------------------------------------
(* src/bot.js: thresholds and the Risk Evaluator *)

WARNING_HEALTH_FACTOR == 150
DANGER_HEALTH_FACTOR == 130

\* A threshold field that was never set (undefined)
Unset == [kind |-> "unset", v |-> 0]

NoSettings == [warningHealthFactor |-> Unset, dangerHealthFactor |-> Unset]

\* settings.warningHealthFactor ?? WARNING_HEALTH_FACTOR, and the same for danger
getThresholds(user, protocol) ==
    LET settings == user.settings[protocol]
    IN  [warning |-> IF settings.warningHealthFactor = Unset
                     THEN Num(WARNING_HEALTH_FACTOR)
                     ELSE settings.warningHealthFactor,
         danger  |-> IF settings.dangerHealthFactor = Unset
                     THEN Num(DANGER_HEALTH_FACTOR)
                     ELSE settings.dangerHealthFactor]

\* A mutant of the prefix choice: the warning test comes first
Prefix_WarningFirst(healthFactor, thresholds) ==
    IF Leq(healthFactor, thresholds.warning) THEN "WARNING"
    ELSE IF Leq(healthFactor, thresholds.danger) THEN "DANGER"
    ELSE "SAFE"

\* The prefix of formatPosition: danger test first, then warning, else safe
Prefix(healthFactor, thresholds) ==
    IF Leq(healthFactor, thresholds.danger) THEN "DANGER"
    ELSE IF Leq(healthFactor, thresholds.warning) THEN "WARNING"
    ELSE "SAFE"

formatPosition(user, position, protocol) ==
    [prefix         |-> Prefix(position.healthFactor, getThresholds(user, protocol)),
     market         |-> position.market,
     ltv            |-> position.ltv,
     liquidationLtv |-> position.liquidationLtv,
     healthFactor   |-> position.healthFactor]

NotRendered == [protocol |-> "none"]

\* One call of formatPosition({ user, position, protocol })
Render(user, position, protocol) ==
    /\ rendered' = [line |-> formatPosition(user, position, protocol),
                    settings |-> user.settings[protocol], protocol |-> protocol]
    /\ UNCHANGED <<markets, aaveMarkets, refresh, fetched, scan, botVars>>

Protocols == {"kamino", "aave"}

\* Inputs of the evaluator: health factors around the default and the
\* inverted thresholds, and users with and without explicit thresholds
EvalHealthFactors ==
    {Num(v) : v \in {129, 130, 131, 133, 150, 151, 180, 200, 201}} \cup {PosInf, NaN}

EvalThresholds == {Unset, Num(130), Num(150), Num(200)}

EvalSettings ==
    [warningHealthFactor : EvalThresholds, dangerHealthFactor : EvalThresholds]

EvalUsers ==
    { [settings |-> [kamino |-> k, aave |-> a]] :
        k \in EvalSettings, a \in {NoSettings, [warningHealthFactor |-> Num(200),
                                               dangerHealthFactor |-> Num(150)]} }

EvalPositions ==
    { [market |-> "Main", ltv |-> 6000, liquidationLtv |-> 8000,
       healthFactor |-> hf, none |-> FALSE] : hf \in EvalHealthFactors }



-----------------------------------------------------------------------------
(* db.js (src/unnamed/part_000): the user store                            *)
(*                                                                         *)
(* A user object handed out by getUser() is a fresh object with a fresh    *)
(* `wallets` map, but the values it refers to (each walletData,            *)
(* settings.kamino, settings.aave, ui) are the very objects of the store.  *)
(* A write through one reference is seen through every other one, and a    *)
(* reference keeps its object alive after the store has dropped it.  For   *)
(* every user and every such object "kind" a slot records who holds a      *)
(* reference (the domain of val), the value each holder sees, and which    *)
(* holders refer to the same object (alias, as unordered pairs).           *)

Users == {"u1"}

\* Object.keys() of the users maps: chat ids are integer-like keys
UserOrder == <<"u1">>

\* One Solana address (a Kamino wallet) and one EVM address (an Aave wallet)
KaminoWallets == {"k1"}
AaveWallets == {"a1"}
Wallets == KaminoWallets \cup AaveWallets

\* Key order of a merged `wallets` map: kamino wallets, then aave wallets
WalletOrder == <<"k1", "a1">>

\* An address is a sequence of runs of one character; the characters are
\* one of each class the two patterns tell apart: "0" is a hex digit
\* outside the base58 alphabet, "a" is in both alphabets, "x" and "G" are
\* base58 only, "O" is in neither.  A "0x" prefix is written as two runs.
Run(c, n) == [c |-> c, n |-> n]

HexChars == {"0", "a"}

Base58Chars == {"a", "x", "G"}

RECURSIVE Length(_)
Length(address) ==
    IF address = <<>> THEN 0 ELSE Head(address).n + Length(Tail(address))

AllIn(address, alphabet) == \A i \in 1..Len(address) : address[i].c \in alphabet

\* /^0x[a-fA-F0-9]{40}$/
isEvmAddress(address) ==
    /\ Len(address) >= 2
    /\ address[1] = Run("0", 1)
    /\ address[2] = Run("x", 1)
    /\ AllIn(SubSeq(address, 3, Len(address)), HexChars)
    /\ Length(SubSeq(address, 3, Len(address))) = 40

\* /^[1-9A-HJ-NP-Za-km-z]{32,44}$/
isSolanaAddress(address) ==
    /\ AllIn(address, Base58Chars)
    /\ Length(address) \in 32..44

detectWalletType(address) ==
    IF isEvmAddress(address) THEN "evm"
    ELSE IF isSolanaAddress(address) THEN "solana"
    ELSE "unknown"

\* The addresses of the two wallets
Address == [k1 |-> <<Run("G", 44)>>,
            a1 |-> <<Run("0", 1), Run("x", 1), Run("a", 40)>>]

\* The wallets map is keyed by the address; the store keeps one key for
\* each protocol, so every EVM address is the key a1 and every other one k1
WalletKey(address) == IF isEvmAddress(address) THEN "a1" ELSE "k1"

\* walletType === "evm" ? "aave" : "kamino"
ProtocolOf(walletType) == IF walletType = "evm" THEN "aave" ELSE "kamino"

WalletProtocol(wallet) == ProtocolOf(detectWalletType(Address[wallet]))

\* The checkAllUsers() runs that may be in progress
SweepIds == {"sweep1"}

\* Who can hold a reference: the store ("store"), the synchronous handler
\* running ("tmp"), the asynchronous handler in flight ("cmd"), a sweep
\* (its id)

Kinds == {"kamino", "aave", "ui"} \cup Wallets

EmptySlot == [val |-> [h \in {} |-> 0], alias |-> {}]

Partners(slot, h) == {x \in DOMAIN slot.val : {h, x} \in slot.alias /\ x # h}

\* h lets go of its reference
Drop(slot, h) ==
    [val   |-> [x \in DOMAIN slot.val \ {h} |-> slot.val[x]],
     alias |-> {p \in slot.alias : h \notin p}]

\* h refers to a new object with value v
Fresh(slot, h, v) ==
    LET d == Drop(slot, h)
    IN  [val   |-> [x \in DOMAIN d.val \cup {h} |-> IF x = h THEN v ELSE d.val[x]],
         alias |-> d.alias]

\* h refers to the object that h2 refers to
Join(slot, h, h2) ==
    IF h = h2 \/ {h, h2} \in slot.alias THEN slot
    ELSE LET d == Drop(slot, h)
             cls == {h2} \cup Partners(d, h2)
         IN  [val   |-> [x \in DOMAIN d.val \cup {h} |->
                            IF x = h THEN d.val[h2] ELSE d.val[x]],
              alias |-> d.alias \cup {{h, x} : x \in cls}]

\* An assignment to a property of the object h refers to
Write(slot, h, v) ==
    [slot EXCEPT !.val = [x \in DOMAIN slot.val |->
                            IF x = h \/ {h, x} \in slot.alias THEN v ELSE slot.val[x]]]

Holds(user, h, kind) == h \in DOMAIN user[kind].val

\* ui = {} (no key at all)
\* walletMenu is undefined while hasWalletMenu is FALSE; pending is
\* undefined, null or { action, protocol }, held as the action and the
\* protocol; protocol is the protocol menu opened last
NoUi == [hasWalletMenu |-> FALSE, walletMenu |-> <<>>, pending |-> "undefined",
         pendingProtocol |-> "undefined", protocol |-> "undefined"]

\* kaminoDb.users[chatId] / aaveDb.users[chatId] is defined
KaminoRecord(user) == Holds(user, "store", "kamino")
AaveRecord(user) == Holds(user, "store", "aave")
Exists(user) == KaminoRecord(user) \/ AaveRecord(user)

\* Object.keys(user.wallets) as a set, and in key order
HeldWallets(user, h) == {w \in Wallets : Holds(user, h, w)}
WalletKeys(user, h) == SelectSeq(WalletOrder, LAMBDA w : Holds(user, h, w))

\* getUser(chatId) -> mergeUsers(kaminoUser, aaveUser), the result held by h.
\* Only called where a record exists (mergeUsers returns undefined otherwise).
getUser(user, h) ==
    [k \in Kinds |->
        IF k = "kamino"
        THEN IF KaminoRecord(user) THEN Join(user[k], h, "store")
             ELSE Fresh(user[k], h, NoSettings)
        ELSE IF k = "aave"
        THEN IF AaveRecord(user) THEN Join(user[k], h, "store")
             ELSE Fresh(user[k], h, NoSettings)
        ELSE IF k = "ui"
        THEN IF KaminoRecord(user) THEN Join(user[k], h, "store")
             ELSE Fresh(user[k], h, NoUi)
        ELSE IF Holds(user, "store", k) THEN Join(user[k], h, "store")
             ELSE Drop(user[k], h)]

\* setUser(chatId, user) with the user object held by h: splitUser, then each
\* record is stored if it has data and deleted otherwise
setUser(user, h) ==
    LET hasKaminoData ==
            \/ HeldWallets(user, h) \cap KaminoWallets # {}
            \/ user["kamino"].val[h] # NoSettings
            \/ user["ui"].val[h] # NoUi
        hasAaveData ==
            \/ HeldWallets(user, h) \cap AaveWallets # {}
            \/ user["aave"].val[h] # NoSettings
        stored(k) ==
            IF k \in {"kamino", "ui"} THEN hasKaminoData
            ELSE IF k = "aave" THEN hasAaveData
            ELSE IF k \in KaminoWallets THEN hasKaminoData /\ Holds(user, h, k)
            ELSE hasAaveData /\ Holds(user, h, k)
    IN  [k \in Kinds |->
            IF stored(k) THEN Join(user[k], "store", h) ELSE Drop(user[k], "store")]

\* deleteUser(chatId)
deleteUser(user) == [k \in Kinds |-> Drop(user[k], "store")]

\* The handler returns: its user object becomes unreachable
Release(user, h) == [k \in Kinds |-> Drop(user[k], h)]

\* The user object held by h, as a value
View(user, h) ==
    [wallets  |-> WalletKeys(user, h),
     settings |-> [kamino |-> user["kamino"].val[h], aave |-> user["aave"].val[h]],
     ui       |-> user["ui"].val[h]]

\* What the store holds for a chat id, as a value
Stored(user) ==
    [kamino  |-> KaminoRecord(user),
     aave    |-> AaveRecord(user),
     wallets |-> [w \in HeldWallets(user, "store") |-> user[w].val["store"]],
     settings |-> [kamino |-> IF KaminoRecord(user) THEN user["kamino"].val["store"]
                              ELSE NoSettings,
                   aave   |-> IF AaveRecord(user) THEN user["aave"].val["store"]
                              ELSE NoSettings],
     ui      |-> IF KaminoRecord(user) THEN user["ui"].val["store"] ELSE NoUi]

NoUser == [k \in Kinds |-> EmptySlot]

-----------------------------------------------------------------------------
(* src/bot.js: the synchronous command handlers *)

NoReply == [op |-> "none"]
NoCmd == [kind |-> "none"]
NoCall == [fn |-> "none"]

\* A step that sends no sweep message and begins no scan
Quiet == sent' = <<>> /\ log' = <<>>

ensureUser(user, h) ==
    IF Exists(user) THEN getUser(user, h)
    ELSE [k \in Kinds |->
            IF k \in {"kamino", "aave"} THEN Fresh(user[k], h, NoSettings)
            ELSE IF k = "ui" THEN Fresh(user[k], h, NoUi)
            ELSE Drop(user[k], h)]

\* removeWallet(ctx, wallet); its own user object is the handler-local "tmp"
removeWallet(user, wallet) ==
    IF ~Exists(user) \/ ~Holds(user, "store", wallet)
    THEN [user |-> user, text |-> "Wallet not found", wasLast |-> FALSE]
    ELSE LET fetchedUser == getUser(user, "tmp")
             deleted == [fetchedUser EXCEPT ![wallet] = Drop(@, "tmp")]
             wasLast == HeldWallets(deleted, "tmp") = {}
             saved   == IF wasLast THEN deleteUser(deleted) ELSE setUser(deleted, "tmp")
         IN  [user |-> Release(saved, "tmp"), text |-> "Wallet removed",
              wasLast |-> wasLast]

\* bot.command("remove")
Remove(chatId, wallet) ==
    /\ LET r == removeWallet(db[chatId], wallet)
       IN  /\ db' = [db EXCEPT ![chatId] = r.user]
           /\ reply' = [op |-> "remove", chatId |-> chatId, wallet |-> wallet,
                        text |-> r.text, wasLast |-> r.wasLast]
    /\ Quiet
    /\ UNCHANGED <<markets, aaveMarkets, refresh, fetched, scan, rendered, sweeps, cmd, notified, shown>>

\* bot.command("stop")
Stop(chatId) ==
    /\ db' = [db EXCEPT ![chatId] = deleteUser(@)]
    /\ reply' = [op |-> "stop", chatId |-> chatId]
    /\ Quiet
    /\ UNCHANGED <<markets, aaveMarkets, refresh, fetched, scan, rendered, sweeps, cmd, notified, shown>>

\* A mutant of the validation: zero is let through
ValidThreshold_AllowsZero(value) ==
    value.kind # "nan" /\ ~Leq(value, Num(0 - 1))

\* !(isNaN(value) || value <= 0)
ValidThreshold(value) == value.kind # "nan" /\ ~Leq(value, Num(0))

\* The body of /setwarning (and, with the other field, of /setdanger) called
\* with an explicit protocol argument: ensureUser, validate, assign, setUser
SetThreshold(user, field, value, protocol) ==
    LET ensured == ensureUser(user, "tmp")
        settings == ensured[protocol].val["tmp"]
        assigned == [ensured EXCEPT
                       ![protocol] = Write(@, "tmp", [settings EXCEPT ![field] = value])]
    IN  IF ~ValidThreshold(value) \/ protocol \notin {"aave", "kamino"}
        THEN Release(ensured, "tmp")
        ELSE Release(setUser(assigned, "tmp"), "tmp")

\* bot.command("setwarning")
SetWarning(chatId, value, protocol) ==
    /\ db' = [db EXCEPT ![chatId] =
                 SetThreshold(@, "warningHealthFactor", value, protocol)]
    /\ reply' = [op |-> "setwarning", chatId |-> chatId, protocol |-> protocol,
                 value |-> value, text |-> IF ValidThreshold(value) THEN "set" ELSE "Usage"]
    /\ Quiet
    /\ UNCHANGED <<markets, aaveMarkets, refresh, fetched, scan, rendered, sweeps, cmd, notified, shown>>

\* The characters of a message, one string each; "Infinity" stands for the
\* eight characters of that word
Digits == <<"0", "1", "2", "3", "4", "5", "6", "7", "8", "9">>

IsDigit(c) == c \in Range(Digits)

DigitValue(c) == CHOOSE i \in 0..9 : Digits[i + 1] = c

\* The longest prefix of decimal digits
RECURSIVE DigitPrefix(_)
DigitPrefix(text) ==
    IF text = <<>> \/ ~IsDigit(Head(text)) THEN <<>>
    ELSE <<Head(text)>> \o DigitPrefix(Tail(text))

RECURSIVE DigitsValue(_, _)
DigitsValue(acc, digits) ==
    IF digits = <<>> THEN acc
    ELSE DigitsValue(10 * acc + DigitValue(Head(digits)), Tail(digits))

\* parseFloat(text): an optional sign, then Infinity or the longest decimal
\* literal the text starts with (what follows is ignored); NaN when there is
\* none.  The value is held in hundredths (two decimals are read).
parseFloat(text) ==
    LET signed == text # <<>> /\ Head(text) \in {"-", "+"}
        negative == signed /\ Head(text) = "-"
        body == IF signed THEN Tail(text) ELSE text
        int == DigitPrefix(body)
        rest == SubSeq(body, Len(int) + 1, Len(body))
        frac == IF rest # <<>> /\ Head(rest) = "." THEN DigitPrefix(Tail(rest)) ELSE <<>>
        hundredths == 100 * DigitsValue(0, int)
                      + (IF Len(frac) >= 1 THEN 10 * DigitValue(frac[1]) ELSE 0)
                      + (IF Len(frac) >= 2 THEN DigitValue(frac[2]) ELSE 0)
    IN  IF body # <<>> /\ Head(body) = "Infinity"
        THEN IF negative THEN NegInf ELSE PosInf
        ELSE IF int = <<>> /\ frac = <<>> THEN NaN
        ELSE Num(IF negative THEN 0 - hundredths ELSE hundredths)

\* bot.command("setwarning") / bot.command("setdanger") on
\* "/<command> <text> <protocolArg>": value = parseFloat(parts[1]),
\* protocol = parts[2] || user.ui.protocol
SetCommand(chatId, command, text, protocolArg) ==
    /\ LET value == parseFloat(text)
           protocol == IF protocolArg # "undefined" THEN protocolArg
                       ELSE Stored(db[chatId]).ui.protocol
           field == IF command = "setwarning" THEN "warningHealthFactor"
                    ELSE "dangerHealthFactor"
       IN  /\ db' = [db EXCEPT ![chatId] = SetThreshold(@, field, value, protocol)]
           /\ reply' = [op |-> command, chatId |-> chatId, value |-> value,
                        text |-> IF ~ValidThreshold(value) THEN "Usage"
                                 ELSE IF protocol \notin {"aave", "kamino"}
                                 THEN "Choose protocol"
                                 ELSE "set"]
    /\ Quiet
    /\ UNCHANGED <<markets, aaveMarkets, refresh, fetched, scan, rendered, sweeps, cmd,
                   notified, shown>>

SetWarningCommand(chatId, text, protocolArg) ==
    SetCommand(chatId, "setwarning", text, protocolArg)

SetDangerCommand(chatId, text, protocolArg) ==
    SetCommand(chatId, "setdanger", text, protocolArg)

\* bot.action("menu:protocol:<protocol>"): user.ui.protocol = protocol, setUser
MenuProtocol(chatId, protocol) ==
    /\ LET ensured == ensureUser(db[chatId], "tmp")
           ui == ensured["ui"].val["tmp"]
           chosen == [ensured EXCEPT
                        !["ui"] = Write(@, "tmp", [ui EXCEPT !.protocol = protocol])]
       IN  db' = [db EXCEPT ![chatId] = Release(setUser(chosen, "tmp"), "tmp")]
    /\ reply' = [op |-> "menu:protocol", chatId |-> chatId]
    /\ Quiet
    /\ UNCHANGED <<markets, aaveMarkets, refresh, fetched, scan, rendered, sweeps, cmd,
                   notified, shown>>

\* bot.action("action:setwarning:<protocol>") / ("action:setdanger:<protocol>"):
\* user.ui.pending = { action, protocol }, setUser
ActionSetThreshold(chatId, action, protocol) ==
    /\ LET ensured == ensureUser(db[chatId], "tmp")
           ui == ensured["ui"].val["tmp"]
           pending == [ensured EXCEPT
                         !["ui"] = Write(@, "tmp", [ui EXCEPT
                                                      !.pending = action,
                                                      !.pendingProtocol = protocol])]
       IN  db' = [db EXCEPT ![chatId] = Release(setUser(pending, "tmp"), "tmp")]
    /\ reply' = [op |-> "action:set", chatId |-> chatId]
    /\ Quiet
    /\ UNCHANGED <<markets, aaveMarkets, refresh, fetched, scan, rendered, sweeps, cmd,
                   notified, shown>>

\* bot.on("text") while setwarning or setdanger is pending, up to the await
\* of ctx.reply: value = parseFloat(text); a bad value is answered and
\* nothing else is done; else user.settings[protocol].<field> = value
TextThresholdBegin(chatId, text) ==
    /\ cmd.kind = "none"
    /\ Stored(db[chatId]).ui.pending \in {"setwarning", "setdanger"}
    /\ LET ensured == ensureUser(db[chatId], "cmd")
           ui == ensured["ui"].val["cmd"]
           value == parseFloat(text)
           protocol == ui.pendingProtocol
           field == IF ui.pending = "setwarning" THEN "warningHealthFactor"
                    ELSE "dangerHealthFactor"
           cleared == [ensured EXCEPT
                         !["ui"] = Write(@, "cmd", [ui EXCEPT
                                                      !.pending = "null",
                                                      !.pendingProtocol = "undefined"])]
           settings == ensured[protocol].val["cmd"]
           assigned == [ensured EXCEPT
                          ![protocol] = Write(@, "cmd", [settings EXCEPT ![field] = value])]
       IN  IF ~ValidThreshold(value)
           THEN /\ db' = [db EXCEPT ![chatId] = Release(ensured, "cmd")]
                /\ cmd' = NoCmd
                /\ reply' = [op |-> ui.pending, chatId |-> chatId,
                             value |-> value, text |-> "Send a positive number"]
           ELSE IF protocol \notin {"aave", "kamino"}
           THEN /\ db' = [db EXCEPT ![chatId] = Release(setUser(cleared, "cmd"), "cmd")]
                /\ cmd' = NoCmd
                /\ reply' = [op |-> ui.pending, chatId |-> chatId,
                             value |-> value, text |-> "Unknown protocol"]
           ELSE /\ db' = [db EXCEPT ![chatId] = assigned]
                /\ cmd' = [kind |-> "text:set", chatId |-> chatId]
                /\ reply' = [op |-> ui.pending, chatId |-> chatId,
                             value |-> value, text |-> "set"]
    /\ Quiet
    /\ UNCHANGED <<markets, aaveMarkets, refresh, fetched, scan, rendered, sweeps,
                   notified, shown>>

\* ctx.reply resolves: user.ui.pending = null, setUser(chatId, user)
TextThresholdEnd ==
    /\ cmd.kind = "text:set"
    /\ LET user == db[cmd.chatId]
           ui == user["ui"].val["cmd"]
           cleared == [user EXCEPT
                         !["ui"] = Write(@, "cmd", [ui EXCEPT
                                                      !.pending = "null",
                                                      !.pendingProtocol = "undefined"])]
       IN  db' = [db EXCEPT ![cmd.chatId] = Release(setUser(cleared, "cmd"), "cmd")]
    /\ cmd' = NoCmd
    /\ reply' = [op |-> "text:set:done", chatId |-> cmd.chatId]
    /\ Quiet
    /\ UNCHANGED <<markets, aaveMarkets, refresh, fetched, scan, rendered, sweeps,
                   notified, shown>>

\* bot.action("action:removewallet"): user.ui.pending = { action: "removewallet" }
ActionRemoveWallet(chatId) ==
    /\ LET ensured == ensureUser(db[chatId], "tmp")
           ui == ensured["ui"].val["tmp"]
           pending == [ensured EXCEPT
                         !["ui"] = Write(@, "tmp", [ui EXCEPT
                                                      !.pending = "removewallet",
                                                      !.pendingProtocol = "undefined"])]
       IN  db' = [db EXCEPT ![chatId] = Release(setUser(pending, "tmp"), "tmp")]
    /\ reply' = [op |-> "action:removewallet", chatId |-> chatId]
    /\ Quiet
    /\ UNCHANGED <<markets, aaveMarkets, refresh, fetched, scan, rendered, sweeps, cmd, notified, shown>>

\* bot.on("text") with an address as the text: nothing is pending -> return;
\* "removewallet" is pending -> pending = null, setUser, removeWallet(text)
Text(chatId, text) ==
    /\ LET ensured == ensureUser(db[chatId], "tmp")
           ui == ensured["ui"].val["tmp"]
           cleared == [ensured EXCEPT
                         !["ui"] = Write(@, "tmp", [ui EXCEPT
                                                      !.pending = "null",
                                                      !.pendingProtocol = "undefined"])]
           r == removeWallet(Release(setUser(cleared, "tmp"), "tmp"), text)
       IN  IF ui.pending = "removewallet"
           THEN /\ db' = [db EXCEPT ![chatId] = r.user]
                /\ reply' = [op |-> "text:removewallet", chatId |-> chatId,
                             wallet |-> text, text |-> r.text, wasLast |-> r.wasLast]
           ELSE /\ db' = [db EXCEPT ![chatId] = Release(ensured, "tmp")]
                /\ reply' = [op |-> "text", chatId |-> chatId]
    /\ Quiet
    /\ UNCHANGED <<markets, aaveMarkets, refresh, fetched, scan, rendered, sweeps, cmd, notified, shown>>

-----------------------------------------------------------------------------
(* src/aave.js: the Aave scan, one getAavePositionsForNetwork per network *)

AaveNetworks == <<"eth", "arb", "base">>

AaveRisky == [market |-> "Aave V3 Ethereum USDC", ltv |-> 6000, liquidationLtv |-> 8000,
              healthFactor |-> Num(133), none |-> FALSE]
AaveSafe  == [market |-> "Aave V3 Arbitrum USDT", ltv |-> 4000, liquidationLtv |-> 8000,
              healthFactor |-> Num(200), none |-> FALSE]

\* getAavePositionsForNetwork(key, wallet): throws or returns positions
NetworkFailed == [ok |-> FALSE, positions |-> <<>>]
NetworkOk(positions) == [ok |-> TRUE, positions |-> positions]

\* Outcomes of the three networks of one scan
AaveScanOutcomes ==
    { <<NetworkFailed, NetworkFailed, NetworkFailed>>,
      <<NetworkOk(<<>>), NetworkOk(<<>>), NetworkOk(<<>>)>>,
      <<NetworkOk(<<AaveRisky>>), NetworkFailed, NetworkOk(<<>>)>>,
      <<NetworkFailed, NetworkOk(<<AaveSafe>>), NetworkOk(<<>>)>>,
      <<NetworkOk(<<AaveRisky>>), NetworkOk(<<AaveSafe>>), NetworkFailed>> }

\* scanAaveMarketsForWallet: try { results.push(...positions) } catch { log }
RECURSIVE scanAaveMarketsForWallet(_, _)
scanAaveMarketsForWallet(results, outcomes) ==
    IF outcomes = <<>> THEN results
    ELSE scanAaveMarketsForWallet(
             IF Head(outcomes).ok THEN results \o Head(outcomes).positions ELSE results,
             Tail(outcomes))

-----------------------------------------------------------------------------
(* src/aave.js and src/bot.js: the market catalogs and their refresh.      *)
(* init() and refreshMarketsBackground() run                               *)
(*   try { await fetchMarkets(); await fetchAaveMarketsAll(); }            *)
(*   catch (error) { logger.error(...) }                                   *)
(* and fetchAaveMarketsAll() goes through the three networks, each fetched *)
(* through withRpcFallback: one attempt per RPC url until one succeeds.    *)

\* NETWORKS[i].defaultRpcUrls.length (normalizeRpcUrls removes no url)
RpcUrlCount == [eth |-> 4, arb |-> 3, base |-> 3]

\* What ui.getReservesHumanized may resolve to, as the symbols of the reserves
ReserveLists == { <<>>, <<"USDC">>, <<"USDC", "USDT">> }

\* aaveDb.aaveMarkets = {}: getAaveMarkets(key) gives [] for every network
NoAaveMarkets == [key \in Range(AaveNetworks) |-> <<>>]

\* One attempt of fetchAaveMarketsForNetwork on one url: rejects, or resolves
FetchRejected == [ok |-> FALSE, reserves |-> <<>>]
FetchResolved(reserves) == [ok |-> TRUE, reserves |-> reserves]

\* No fetch was resolved by the last step
NoAttempt == [what |-> "none", ok |-> TRUE, exhausted |-> FALSE]

\* No run is in progress and init() has not run
IdleRefresh ==
    [by |-> "none", pc |-> "idle", network |-> 0, url |-> 0,
     logged |-> <<>>, last |-> NoAttempt, launched |-> FALSE]

\* Where a run goes once its try/catch is left: init() goes on to its timers
\* and bot.launch(), refreshMarketsBackground() returns
AfterCatalogs(r) ==
    [r EXCEPT !.pc = IF r.by = "init" THEN "launch" ELSE "idle",
              !.network = 0, !.url = 0]

\* The message the catch of the run logs
CatchMessage(by) ==
    IF by = "init" THEN "Failed to load markets on startup"
    ELSE "Failed to refresh markets in background"

\* init() up to the await of fetchMarkets()
InitStart ==
    /\ refresh.by = "none" /\ ~refresh.launched
    /\ refresh' = [refresh EXCEPT !.by = "init", !.pc = "kamino",
                                  !.logged = <<>>, !.last = NoAttempt]
    /\ UNCHANGED <<markets, aaveMarkets, fetched, scan, rendered, botVars>>

\* A tick of setInterval(refreshMarketsBackground, CHECK_INTERVAL), up to the
\* await of fetchMarkets()
BackgroundStart ==
    /\ refresh.launched /\ refresh.pc = "idle"
    /\ refresh' = [refresh EXCEPT !.by = "background", !.pc = "kamino",
                                  !.logged = <<>>, !.last = NoAttempt]
    /\ UNCHANGED <<markets, aaveMarkets, fetched, scan, rendered, botVars>>

\* await fetchMarkets() resolves: the run goes on to fetchAaveMarketsAll()
KaminoFetched(list) ==
    /\ refresh.pc = "kamino"
    /\ FetchMarketsOk(list)
    /\ refresh' = [refresh EXCEPT
                     !.pc = "aave", !.network = 1, !.url = 1, !.logged = <<>>,
                     !.last = [what |-> "kamino", ok |-> TRUE, exhausted |-> FALSE]]
    /\ UNCHANGED <<aaveMarkets, scan, rendered, botVars>>

\* await fetchMarkets() rejects (transport error or non-OK response): the
\* catch of the run logs it, fetchAaveMarketsAll() is not reached
KaminoFetchFailed ==
    /\ refresh.pc = "kamino"
    /\ FetchMarketsFail
    /\ refresh' = [AfterCatalogs(refresh) EXCEPT
                     !.logged = <<CatchMessage(refresh.by)>>,
                     !.last = [what |-> "kamino", ok |-> FALSE, exhausted |-> FALSE]]
    /\ UNCHANGED <<aaveMarkets, scan, rendered, botVars>>

\* The loop of fetchAaveMarketsAll() moves to the next network, or ends
NextNetwork(r) ==
    IF r.network < Len(AaveNetworks)
    THEN [r EXCEPT !.network = @ + 1, !.url = 1]
    ELSE AfterCatalogs(r)

\* A mutant of the attempt: the error of the last url is not caught per
\* network but ends fetchAaveMarketsAll, in the catch of the run
AaveAttempt_FailureEndsRun(attempt) ==
    /\ refresh.pc = "aave"
    /\ LET key == AaveNetworks[refresh.network]
           exhausted == ~attempt.ok /\ refresh.url = RpcUrlCount[key]
           last == [what |-> key, ok |-> attempt.ok, exhausted |-> exhausted]
       IN  /\ aaveMarkets' = IF attempt.ok
                             THEN [aaveMarkets EXCEPT ![key] = attempt.reserves]
                             ELSE aaveMarkets
           /\ refresh' =
                 IF attempt.ok
                 THEN [NextNetwork(refresh) EXCEPT !.logged = <<>>, !.last = last]
                 ELSE IF exhausted
                 THEN [AfterCatalogs(refresh) EXCEPT
                         !.logged = <<CatchMessage(refresh.by)>>, !.last = last]
                 ELSE [refresh EXCEPT !.url = @ + 1, !.logged = <<>>, !.last = last]
    /\ UNCHANGED <<markets, fetched, scan, rendered, botVars>>

\* One attempt of withRpcFallback for the network being fetched resolves
\* (setAaveMarkets(key, markets)) or rejects (the next url is tried; after
\* the last one the error is thrown, caught and logged by
\* fetchAaveMarketsAll, which goes on with the next network)
AaveAttempt(attempt) ==
    /\ refresh.pc = "aave"
    /\ LET key == AaveNetworks[refresh.network]
           exhausted == ~attempt.ok /\ refresh.url = RpcUrlCount[key]
           last == [what |-> key, ok |-> attempt.ok, exhausted |-> exhausted]
       IN  /\ aaveMarkets' = IF attempt.ok
                             THEN [aaveMarkets EXCEPT ![key] = attempt.reserves]
                             ELSE aaveMarkets
           /\ refresh' =
                 IF attempt.ok
                 THEN [NextNetwork(refresh) EXCEPT !.logged = <<>>, !.last = last]
                 ELSE IF exhausted
                 THEN [NextNetwork(refresh) EXCEPT
                         !.logged = <<"Failed to fetch Aave markets">>, !.last = last]
                 ELSE [refresh EXCEPT !.url = @ + 1, !.logged = <<>>, !.last = last]
    /\ UNCHANGED <<markets, fetched, scan, rendered, botVars>>

\* init() after its first try/catch: the timers are set, the bot is launched
InitLaunch ==
    /\ refresh.pc = "launch"
    /\ refresh' = [refresh EXCEPT !.pc = "idle", !.launched = TRUE,
                                  !.logged = <<>>, !.last = NoAttempt]
    /\ UNCHANGED <<markets, aaveMarkets, fetched, scan, rendered, botVars>>

-----------------------------------------------------------------------------
(* src/aave.js: one Aave scan, network by network and url by url.  The     *)
(* call in flight is held in `scan`, as a Kamino scan is.                  *)

\* pool.getUserAccountData(wallet): the base-currency amounts (in cents
\* here), the liquidation threshold in basis points and the health factor,
\* an unsigned 18-decimal integer held here in ten-thousandths (so
\* Number(formatUnits(..)) is never negative and always finite)
AccountData(debt, collateral, threshold, hf) ==
    [totalDebtBase |-> debt, totalCollateralBase |-> collateral,
     currentLiquidationThreshold |-> threshold, healthFactor |-> hf]

\* One entry of userData.userReserves; the asset is named by its symbol
Reserve(asset, debt) == [underlyingAsset |-> asset, scaledVariableDebt |-> debt]

\* NETWORKS[i].label, and `${label} ${market.symbol}`
NetworkLabel ==
    [eth |-> "Aave V3 Ethereum", arb |-> "Aave V3 Arbitrum", base |-> "Aave V3 Base"]

LabelWithSymbol ==
    [eth  |-> [USDC |-> "Aave V3 Ethereum USDC", USDT |-> "Aave V3 Ethereum USDT"],
     arb  |-> [USDC |-> "Aave V3 Arbitrum USDC", USDT |-> "Aave V3 Arbitrum USDT"],
     base |-> [USDC |-> "Aave V3 Base USDC",     USDT |-> "Aave V3 Base USDT"]]

\* !( !Number.isFinite(healthFactor) || healthFactor <= 0 )
HealthFactorUsable(healthFactor) == healthFactor > 0

\* userReserves.filter(scaledVariableDebt > 0).map(reserve => position)
RECURSIVE ReservePositions(_, _, _, _)
ReservePositions(key, userReserves, cachedMarkets, values) ==
    IF userReserves = <<>> THEN <<>>
    ELSE LET reserve == Head(userReserves)
             rest == ReservePositions(key, Tail(userReserves), cachedMarkets, values)
             marketLabel == IF reserve.underlyingAsset \in Range(cachedMarkets)
                            THEN LabelWithSymbol[key][reserve.underlyingAsset]
                            ELSE NetworkLabel[key]
         IN  IF reserve.scaledVariableDebt > 0
             THEN <<[values EXCEPT !.market = marketLabel]>> \o rest
             ELSE rest

\* getAavePositionsForNetwork once its three calls have resolved.
\* currentLtv = debt.mul(10000).div(collateral).toNumber() / 100 is an
\* integer division, liquidationLtv is the threshold / 100 (both have two
\* decimals, toFixed(2) changes nothing), healthFactor is
\* Math.round(healthFactor * 100) / 100.  The amounts of the inputs keep
\* the quotient far below 2^53, where toNumber() would throw.
getAavePositionsForNetwork(key, accountData, userReserves, cachedMarkets) ==
    IF accountData.totalDebtBase = 0 \/ accountData.totalCollateralBase = 0
    THEN <<>>
    ELSE IF ~HealthFactorUsable(accountData.healthFactor)
    THEN <<>>
    ELSE ReservePositions(key, userReserves, cachedMarkets,
             [market         |-> "",
              ltv            |-> (accountData.totalDebtBase * 10000)
                                    \div accountData.totalCollateralBase,
              liquidationLtv |-> accountData.currentLiquidationThreshold,
              healthFactor   |-> Num((2 * accountData.healthFactor + PerHundredth)
                                        \div (2 * PerHundredth)),
              none           |-> FALSE])

\* One attempt of withRpcFallback in getAavePositionsForNetwork, that is
\* Promise.all of the two account calls on this url and of
\* getCachedAaveMarkets(key).  `ok` tells whether the account calls
\* resolved.  With an empty cached list getCachedAaveMarkets calls
\* fetchAaveMarketsForNetwork, which goes through the urls of the network
\* from the first one on its own: `fetch` is the url on which it resolves
\* (0: on none, after all of them) and `reserves` what it resolves to.
RpcFailed(fetch, reserves) ==
    [ok |-> FALSE, accountData |-> AccountData(0, 0, 0, 0), userReserves |-> <<>>,
     fetch |-> fetch, reserves |-> reserves]

RpcOk(accountData, userReserves, fetch, reserves) ==
    [ok |-> TRUE, accountData |-> accountData, userReserves |-> userReserves,
     fetch |-> fetch, reserves |-> reserves]

\* A mutant of the loop over the urls: the last url is never tried
withRpcFallback_SkipsLastUrl(key, url, resolved) ==
    IF resolved THEN [pc |-> "return", url |-> url]
    ELSE IF url >= RpcUrlCount[key] - 1 THEN [pc |-> "throw", url |-> url]
    ELSE [pc |-> "try", url |-> url + 1]

\* withRpcFallback after the attempt on the url-th url of the network:
\* `return await fn(..)` on success, the next url after a failure, and
\* `throw lastError` after the failure on the last url
withRpcFallback(key, url, resolved) ==
    IF resolved THEN [pc |-> "return", url |-> url]
    ELSE IF url = RpcUrlCount[key] THEN [pc |-> "throw", url |-> url]
    ELSE [pc |-> "try", url |-> url + 1]

\* scanAaveMarketsForWallet up to the first await
AaveScanBegin ==
    /\ scan.status = "idle"
    /\ scan' = [fn |-> "scanAaveMarketsForWallet", status |-> "running",
                network |-> 1, url |-> 1, results |-> <<>>, outcomes |-> <<>>,
                tried |-> <<>>, lastError |-> 0, logged |-> <<>>]
    /\ UNCHANGED <<markets, aaveMarkets, refresh, fetched, rendered, botVars>>

\* A mutant of the loop: a network that failed discards what was pushed
AaveScanNext_FailureDropsResults(sc, outcome, positions) ==
    [sc EXCEPT !.results = IF outcome.ok THEN @ \o positions ELSE <<>>,
               !.outcomes = Append(@, outcome),
               !.network = @ + 1, !.url = 1,
               !.status = IF sc.network = Len(AaveNetworks) THEN "returned" ELSE @]

\* The scan after the network it was on: the next one, or `return results`.
\* `outcomes` keeps, for each network, how its query ended and on what data.
AaveScanNext(sc, outcome, positions) ==
    [sc EXCEPT !.results = @ \o positions,
               !.outcomes = Append(@, outcome),
               !.network = @ + 1, !.url = 1,
               !.status = IF sc.network = Len(AaveNetworks) THEN "returned" ELSE @]

\* One attempt settles.  Resolved: the positions of the network are pushed.
\* Rejected: the next url is tried; after the last one withRpcFallback
\* throws lastError, which the catch of the scan logs.  `tried` lists the
\* urls tried, with the result, for the network the attempt is for;
\* `lastError` is the url whose error was caught last; an outcome keeps the
\* url that gave the result, or the one whose error was thrown.
AaveScanAttempt(attempt) ==
    /\ scan.status = "running"
    /\ LET key == AaveNetworks[scan.network]
           cached == aaveMarkets[key]
           fetches == cached = <<>>
           resolved == attempt.ok /\ (~fetches \/ attempt.fetch > 0)
           cachedMarkets == IF fetches THEN attempt.reserves ELSE cached
           positions == getAavePositionsForNetwork(key, attempt.accountData,
                                                   attempt.userReserves, cachedMarkets)
           tried == (IF scan.url = 1 THEN <<>> ELSE scan.tried)
                    \o <<[url |-> scan.url, ok |-> resolved]>>
           lastError == IF resolved THEN (IF scan.url = 1 THEN 0 ELSE scan.lastError)
                        ELSE scan.url
           sc == [scan EXCEPT !.tried = tried, !.lastError = lastError, !.logged = <<>>]
           loop == withRpcFallback(key, scan.url, resolved)
       IN  /\ attempt.fetch <= RpcUrlCount[key]
           /\ aaveMarkets' = IF fetches /\ attempt.fetch > 0
                             THEN [aaveMarkets EXCEPT ![key] = attempt.reserves]
                             ELSE aaveMarkets
           /\ scan' =
                 IF loop.pc = "return"
                 THEN AaveScanNext(sc, [ok |-> TRUE, url |-> scan.url,
                                        accountData |-> attempt.accountData,
                                        userReserves |-> attempt.userReserves,
                                        cachedMarkets |-> cachedMarkets],
                                   positions)
                 ELSE IF loop.pc = "throw"
                 THEN AaveScanNext([sc EXCEPT !.logged = <<"Aave scan failed">>],
                                   [ok |-> FALSE, url |-> lastError,
                                    accountData |-> attempt.accountData,
                                    userReserves |-> <<>>,
                                    cachedMarkets |-> <<>>],
                                   <<>>)
                 ELSE [sc EXCEPT !.url = loop.url]
    /\ UNCHANGED <<markets, refresh, fetched, rendered, botVars>>

-----------------------------------------------------------------------------
(* src/bot.js: what the sweep, /check and /refreshmarkets share *)

SeqsOfLen(S, n) == {s \in SeqsUpTo(S, n) : Len(s) = n}

\* The for-of loop of a Kamino scan over the markets `toScan`
RECURSIVE ScanMarkets(_, _, _)
ScanMarkets(results, toScan, outcomes) ==
    IF toScan = <<>> THEN results
    ELSE ScanMarkets(ScanMarket(results, Head(toScan), Head(outcomes)),
                     Tail(toScan), Tail(outcomes))

\* positions.map(p => p.market)
RECURSIVE PositionMarkets(_)
PositionMarkets(positions) ==
    IF positions = <<>> THEN <<>>
    ELSE <<Head(positions).market>> \o PositionMarkets(Tail(positions))

\* positions.map(p => formatPosition({ user, position: p, protocol }))
RECURSIVE FormatLines(_, _, _)
FormatLines(user, positions, protocol) ==
    IF positions = <<>> THEN <<>>
    ELSE <<formatPosition(user, Head(positions), protocol)>>
         \o FormatLines(user, Tail(positions), protocol)

NoThresholds == [warning |-> Unset, danger |-> Unset]

\* A mutant of the skip rule: a wallet is never skipped
SkipsWallet_Never(protocol, marketList) == FALSE

\* if (protocol === "kamino" && markets.length === 0) continue;
SkipsWallet(protocol, marketList) == protocol = "kamino" /\ marketList = <<>>

\* The scan the sweep or /check makes for one wallet, up to its first await:
\* skipped, or the call with the catalog it read and how far it got without
\* I/O ("threw": Markets not loaded; "returned": nothing to query; "io")
TargetedCall(by, chatId, wallet, walletData, thresholds, catalog) ==
    LET protocol == walletData.protocol
        base == [by |-> by, chatId |-> chatId, wallet |-> wallet,
                 protocol |-> protocol, fn |-> "none",
                 marketNames |-> walletData.markets, toCheck |-> <<>>,
                 thresholds |-> thresholds, status |-> "skipped",
                 positions |-> <<>>, again |-> FALSE, allFailed |-> FALSE]
    IN  IF SkipsWallet(protocol, walletData.markets) THEN base
        ELSE IF protocol = "aave"
        THEN [base EXCEPT !.fn = "checkAaveMarkets", !.status = "io"]
        ELSE IF catalog = <<>>
        THEN [base EXCEPT !.fn = "checkSpecificMarkets", !.status = "threw"]
        ELSE LET toCheck == FilterByNames(catalog, walletData.markets)
             IN  [base EXCEPT !.fn = "checkSpecificMarkets", !.toCheck = toCheck,
                              !.status = IF toCheck = <<>> THEN "returned" ELSE "io"]

\* The results the awaited call may resolve to
IoOutcomes(call) ==
    IF call.protocol = "aave"
    THEN {o \in AaveScanOutcomes : Len(o) = Len(AaveNetworks)}
    ELSE SeqsOfLen(QueryOutcomes, Len(call.toCheck))

\* Every query of the scan failed: each getObligations call threw, or each
\* getAavePositionsForNetwork did
AllFailed(outcomes) == \A i \in 1..Len(outcomes) : ~outcomes[i].ok

CallPositions(call, outcomes) ==
    IF call.protocol = "aave" THEN scanAaveMarketsForWallet(<<>>, outcomes)
    ELSE ScanMarkets(<<>>, call.toCheck, outcomes)

-----------------------------------------------------------------------------
(* src/bot.js: checkAllUsers(), the background sweep *)

IdleSweep == [pc |-> "idle", work |-> <<>>, call |-> NoCall]

\* A mutant of the notification test: a position exactly at the warning
\* threshold is not reported
Notifies_Strict(healthFactor, thresholds) ==
    IsFinite(healthFactor) /\ ~Gt(healthFactor, thresholds.warning)
    /\ healthFactor # thresholds.warning

\* !( !Number.isFinite(healthFactor) ) && !( healthFactor > thresholds.warning )
Notifies(healthFactor, thresholds) ==
    IsFinite(healthFactor) /\ ~Gt(healthFactor, thresholds.warning)

RECURSIVE MessagesFor(_, _, _)
MessagesFor(rest, thresholds, message) ==
    IF rest = <<>> THEN <<>>
    ELSE (IF Notifies(Head(rest).healthFactor, thresholds) THEN <<message>> ELSE <<>>)
         \o MessagesFor(Tail(rest), thresholds, message)

\* A mutant of the notification loop: a wallet reported before stays quiet
SweepMessages_Suppressed(chatId, wallet, protocol, positions, thresholds, user) ==
    IF <<chatId, wallet>> \in notified THEN <<>>
    ELSE MessagesFor(positions, thresholds,
                     [chatId |-> chatId, wallet |-> wallet, protocol |-> protocol,
                      lines |-> FormatLines(user, positions, protocol)])

\* for (const pos of positions) { ...; sendMessage(chatId, <all positions>) }
SweepMessages(chatId, wallet, protocol, positions, thresholds, user) ==
    MessagesFor(positions, thresholds,
                [chatId |-> chatId, wallet |-> wallet, protocol |-> protocol,
                 lines |-> FormatLines(user, positions, protocol)])

\* The [chatId, wallet] pairs the two nested loops go through, from the
\* snapshot getAllUsers() returned
RECURSIVE SweepItems(_, _, _)
SweepItems(snapshot, s, order) ==
    IF order = <<>> THEN <<>>
    ELSE LET chatId == Head(order)
             wallets == IF Holds(snapshot[chatId], s, "kamino")
                        THEN WalletKeys(snapshot[chatId], s) ELSE <<>>
         IN  [i \in 1..Len(wallets) |-> <<chatId, wallets[i]>>]
             \o SweepItems(snapshot, s, Tail(order))

\* The loops run without yielding until a scan really awaits I/O: a skipped
\* wallet, a scan that throws at once and a scan with nothing to query are
\* passed in the same step (positions empty or error caught: `continue`)
RECURSIVE SweepAdvance(_, _, _, _)

\* A mutant of the loops: a scan that throws ends the sweep
SweepAdvance_StopsOnFailure(users, s, work, catalog) ==
    IF work = <<>> THEN [work |-> <<>>, call |-> NoCall, log |-> <<>>]
    ELSE LET chatId == Head(work)[1]
             wallet == Head(work)[2]
             user == View(users[chatId], s)
             walletData == users[chatId][wallet].val[s]
             call == TargetedCall(s, chatId, wallet, walletData,
                                  getThresholds(user, walletData.protocol), catalog)
         IN  IF call.status = "io"
             THEN [work |-> Tail(work), call |-> call, log |-> <<call>>]
             ELSE IF call.status = "threw"
             THEN [work |-> <<>>, call |-> NoCall, log |-> <<call>>]
             ELSE LET rest == SweepAdvance(users, s, Tail(work), catalog)
                  IN  [rest EXCEPT !.log = <<call>> \o @]

SweepAdvance(users, s, work, catalog) ==
    IF work = <<>> THEN [work |-> <<>>, call |-> NoCall, log |-> <<>>]
    ELSE LET chatId == Head(work)[1]
             wallet == Head(work)[2]
             user == View(users[chatId], s)
             walletData == users[chatId][wallet].val[s]
             call == TargetedCall(s, chatId, wallet, walletData,
                                  getThresholds(user, walletData.protocol), catalog)
         IN  IF call.status = "io"
             THEN [work |-> Tail(work), call |-> call, log |-> <<call>>]
             ELSE LET rest == SweepAdvance(users, s, Tail(work), catalog)
                  IN  [rest EXCEPT !.log = <<call>> \o @]

\* What both sweep actions do once the next await (or the end) is known
SweepContinue(s, users, work) ==
    LET adv == SweepAdvance(users, s, work, markets)
    IN  IF adv.call.fn = "none"
        THEN /\ db' = [u \in Users |-> Release(users[u], s)]
             /\ sweeps' = [sweeps EXCEPT ![s] = IdleSweep]
        ELSE /\ db' = users
             /\ sweeps' = [sweeps EXCEPT ![s] =
                              [pc |-> "await", work |-> adv.work, call |-> adv.call]]

\* checkAllUsers() from its start to its first await (or its end)
SweepStart(s) ==
    /\ sweeps[s].pc = "idle"
    /\ LET snapshot == [u \in Users |->
                          IF Exists(db[u]) THEN getUser(db[u], s) ELSE db[u]]
           work == SweepItems(snapshot, s, UserOrder)
       IN  /\ SweepContinue(s, snapshot, work)
           /\ log' = SweepAdvance(snapshot, s, work, markets).log
    /\ sent' = <<>>
    /\ reply' = NoReply
    /\ UNCHANGED <<markets, aaveMarkets, refresh, fetched, scan, rendered, cmd, notified, shown>>

\* The awaited scan resolves: notify, setUser(chatId, user), go on to the
\* next await (or the end)
SweepScanDone(s, outcomes) ==
    /\ sweeps[s].pc = "await"
    /\ outcomes \in IoOutcomes(sweeps[s].call)
    /\ LET call == sweeps[s].call
           chatId == call.chatId
           positions == CallPositions(call, outcomes)
           messages == IF positions = <<>> THEN <<>>
                       ELSE SweepMessages(chatId, call.wallet, call.protocol, positions,
                                          call.thresholds, View(db[chatId], s))
           users == IF positions = <<>> THEN db
                    ELSE [db EXCEPT ![chatId] = setUser(@, s)]
           done == [call EXCEPT !.status = "done", !.positions = positions,
                                !.again = <<chatId, call.wallet>> \in notified,
                                !.allFailed = AllFailed(outcomes)]
       IN  /\ SweepContinue(s, users, sweeps[s].work)
           /\ log' = <<done>> \o SweepAdvance(users, s, sweeps[s].work, markets).log
           /\ sent' = messages
           /\ notified' = IF messages = <<>> THEN notified
                          ELSE notified \cup {<<chatId, call.wallet>>}
    /\ reply' = NoReply
    /\ UNCHANGED <<markets, aaveMarkets, refresh, fetched, scan, rendered, cmd, shown>>

-----------------------------------------------------------------------------
(* src/bot.js: the asynchronous command handlers.  One is in flight at a   *)
(* time; its user object is held by "cmd".  An await that nothing reads or *)
(* writes state around (answerCbQuery, the status reply, deleteMessage) is *)
(* folded into the step next to it.                                        *)

\* addWallet(ctx, wallet) up to the await of the full scan; the Kamino scan
\* reads the catalog when it is called and throws if it is empty
AddWalletBegin(chatId, wallet) ==
    /\ cmd.kind = "none"
    /\ LET protocol == WalletProtocol(wallet)
           threw == protocol = "kamino" /\ markets = <<>>
       IN  /\ cmd' = IF threw THEN NoCmd
                     ELSE [kind |-> "add", chatId |-> chatId, wallet |-> wallet,
                           protocol |-> protocol,
                           toCheck |-> IF protocol = "aave" THEN <<>> ELSE markets]
           /\ reply' = [op |-> "add", chatId |-> chatId, wallet |-> wallet,
                        text |-> IF threw THEN "Error: Markets not loaded"
                                 ELSE "Scanning",
                        allFailed |-> FALSE]
    /\ Quiet
    /\ UNCHANGED <<markets, aaveMarkets, refresh, fetched, scan, rendered, db, sweeps, notified, shown>>

\* addWallet(ctx, wallet) of the /add command, given the text after the
\* command: the length check, detectWalletType, then the scan of the
\* protocol the type selects.  `scanner` is the scan function called.
addWallet(chatId, address) ==
    /\ cmd.kind = "none"
    /\ LET walletType == detectWalletType(address)
           protocol == ProtocolOf(walletType)
           rejected == Length(address) < 32 \/ walletType = "unknown"
           threw == protocol = "kamino" /\ markets = <<>>
           scanner == IF rejected THEN "none"
                      ELSE IF protocol = "aave" THEN "scanAaveMarketsForWallet"
                      ELSE "scanAllMarketsForWallet"
       IN  /\ cmd' = IF rejected \/ threw THEN NoCmd
                     ELSE [kind |-> "add", chatId |-> chatId,
                           wallet |-> WalletKey(address),
                           protocol |-> protocol,
                           toCheck |-> IF protocol = "aave" THEN <<>> ELSE markets]
           /\ reply' = [op |-> "add", chatId |-> chatId, address |-> address,
                        scanner |-> scanner,
                        text |-> IF Length(address) < 32 THEN "Usage: /add <wallet_address>"
                                 ELSE IF walletType = "unknown" THEN "Unsupported wallet format"
                                 ELSE IF threw THEN "Error: Markets not loaded"
                                 ELSE "Scanning",
                        allFailed |-> FALSE]
    /\ Quiet
    /\ UNCHANGED <<markets, aaveMarkets, refresh, fetched, scan, rendered, db, sweeps, notified, shown>>

\* The scan resolves: no positions -> reply; else ensureUser,
\* user.wallets[wallet] = { markets, protocol }, setUser
AddWalletEnd(outcomes) ==
    /\ cmd.kind = "add"
    /\ outcomes \in IoOutcomes(cmd)
    /\ LET chatId == cmd.chatId
           positions == CallPositions(cmd, outcomes)
           ensured == ensureUser(db[chatId], "cmd")
           walletData == [markets |-> PositionMarkets(positions),
                          protocol |-> cmd.protocol]
           added == [ensured EXCEPT ![cmd.wallet] = Fresh(@, "cmd", walletData)]
       IN  IF positions = <<>>
           THEN /\ reply' = [op |-> "add", chatId |-> chatId, wallet |-> cmd.wallet,
                             text |-> "No positions found for this wallet",
                             allFailed |-> AllFailed(outcomes)]
                /\ UNCHANGED db
           ELSE /\ reply' = [op |-> "add", chatId |-> chatId, wallet |-> cmd.wallet,
                             text |-> "Wallet added!", allFailed |-> FALSE]
                /\ db' = [db EXCEPT ![chatId] = Release(setUser(added, "cmd"), "cmd")]
    /\ cmd' = NoCmd
    /\ Quiet
    /\ UNCHANGED <<markets, aaveMarkets, refresh, fetched, scan, rendered, sweeps, notified, shown>>

\* The core service, POST /api/wallets/add (reached from addWallet of
\* services/bot/bot.js, which passes the text on as it is), up to the await
\* of GET <service>/scan/<address>.  The user exists (getCoreUser created
\* it).  The Kamino service answers 500 at once when its catalog is empty.
\* `saved` is the write user.wallets[address] = { protocol } to the core
\* store; `service` is the scanner the request went to.
ApiWalletsAddBegin(userId, address) ==
    /\ cmd.kind = "none"
    /\ LET protocol == IF isEvmAddress(address) THEN "aave" ELSE "kamino"
           threw == protocol = "kamino" /\ markets = <<>>
       IN  /\ cmd' = IF threw THEN NoCmd
                     ELSE [kind |-> "api:add", userId |-> userId, address |-> address,
                           protocol |-> protocol,
                           toCheck |-> IF protocol = "aave" THEN <<>> ELSE markets]
           /\ reply' = [op |-> "api:add", address |-> address,
                        service |-> protocol,
                        status |-> IF threw THEN 500 ELSE 0,
                        saved |-> FALSE]
    /\ Quiet
    /\ UNCHANGED <<markets, aaveMarkets, refresh, fetched, scan, rendered, db, sweeps, notified, shown>>

\* The rows of the wallets table of the core service (services/core/db.js)
\* are the wallet objects held by "core": { protocol } and nothing else
CoreWallet(protocol) == [protocol |-> protocol]

\* The scan request resolves: no positions -> 400; else the wallet is saved
\* under its address and the positions are returned
ApiWalletsAddEnd(outcomes) ==
    /\ cmd.kind = "api:add"
    /\ outcomes \in IoOutcomes(cmd)
    /\ LET positions == CallPositions(cmd, outcomes)
       IN  /\ reply' = [op |-> "api:add", address |-> cmd.address,
                        service |-> cmd.protocol,
                        status |-> IF positions = <<>> THEN 400 ELSE 200,
                        saved |-> positions # <<>>]
           /\ db' = IF positions = <<>> THEN db
                    ELSE [db EXCEPT ![cmd.userId][WalletKey(cmd.address)] =
                             Fresh(@, "core", CoreWallet(cmd.protocol))]
    /\ cmd' = NoCmd
    /\ Quiet
    /\ UNCHANGED <<markets, aaveMarkets, refresh, fetched, scan, rendered, sweeps, notified, shown>>

\* The core service, GET /api/users/:id/check, up to the first request to a
\* scanner service: the wallets are those of the user as it was read
ApiUsersCheckBegin(userId) ==
    /\ cmd.kind = "none"
    /\ LET wallets == WalletKeys(db[userId], "core")
       IN  /\ cmd' = IF wallets = <<>> THEN NoCmd
                     ELSE [kind |-> "api:check", userId |-> userId, work |-> wallets,
                           protocols |-> [i \in 1..Len(wallets) |->
                                            db[userId][wallets[i]].val["core"].protocol],
                           results |-> <<>>]
           /\ reply' = IF wallets = <<>>
                       THEN [op |-> "api:check", userId |-> userId, results |-> <<>>]
                       ELSE NoReply
    /\ Quiet
    /\ UNCHANGED <<markets, aaveMarkets, refresh, fetched, scan, rendered, db, sweeps, notified, shown>>

\* What the core asks the scanner service of a wallet's protocol: Aave
\* GET /check/<address>; Kamino POST /check/<address> with { markets: [] },
\* which the service hands to checkSpecificMarkets(address, markets)
CoreCheckCall(protocol, catalog) ==
    [protocol |-> protocol,
     marketNames |-> <<>>,
     threw |-> protocol = "kamino" /\ catalog = <<>>,
     toCheck |-> IF protocol = "aave" THEN <<>> ELSE FilterByNames(catalog, <<>>)]

\* The request for the wallet the loop is on resolves (positions) or fails
\* (an { error } entry); after the last wallet the results are sent
ApiUsersCheckStep(outcomes) ==
    /\ cmd.kind = "api:check"
    /\ LET n == Len(cmd.results) + 1
           call == CoreCheckCall(cmd.protocols[n], markets)
           entry == [wallet |-> cmd.work[n], protocol |-> call.protocol,
                     marketNames |-> call.marketNames,
                     error |-> call.threw,
                     positions |-> IF call.threw THEN <<>>
                                   ELSE CallPositions(call, outcomes)]
           results == Append(cmd.results, entry)
       IN  /\ outcomes \in IoOutcomes(call)
           /\ cmd' = IF n = Len(cmd.work) THEN NoCmd
                     ELSE [cmd EXCEPT !.results = results]
           /\ reply' = IF n = Len(cmd.work)
                       THEN [op |-> "api:check", userId |-> cmd.userId, results |-> results]
                       ELSE NoReply
    /\ Quiet
    /\ UNCHANGED <<markets, aaveMarkets, refresh, fetched, scan, rendered, db, sweeps, notified, shown>>

\* walletMenu(user): user.ui.walletMenu = Object.keys(user.wallets)
walletMenu(user, h) ==
    [user EXCEPT !["ui"] = Write(@, h, [user["ui"].val[h] EXCEPT
                                          !.hasWalletMenu = TRUE,
                                          !.walletMenu = WalletKeys(user, h)])]

\* The wallets menu a chat has on screen: none, or the wallets it lists.
\* Telegram rejects an editMessageText that would change nothing.
NoMenu == [open |-> FALSE, list |-> <<>>]
Menu(list) == [open |-> TRUE, list |-> list]

\* bot.action("menu:wallets") up to the await of editMessageText
MenuWalletsBegin(chatId) ==
    /\ cmd.kind = "none"
    /\ LET user == walletMenu(ensureUser(db[chatId], "cmd"), "cmd")
       IN  /\ db' = [db EXCEPT ![chatId] = user]
           /\ cmd' = [kind |-> "menu:wallets", chatId |-> chatId,
                      menu |-> Menu(WalletKeys(user, "cmd"))]
    /\ reply' = NoReply
    /\ Quiet
    /\ UNCHANGED <<markets, aaveMarkets, refresh, fetched, scan, rendered, sweeps, notified, shown>>

\* editMessageText of the main menu message resolves (setUser follows) or
\* rejects (the handler ends)
MenuWalletsEnd(edited) ==
    /\ cmd.kind = "menu:wallets"
    /\ db' = [db EXCEPT ![cmd.chatId] =
                 Release(IF edited THEN setUser(@, "cmd") ELSE @, "cmd")]
    /\ shown' = IF edited THEN [shown EXCEPT ![cmd.chatId] = cmd.menu] ELSE shown
    /\ cmd' = NoCmd
    /\ reply' = [op |-> "menu:wallets", chatId |-> cmd.chatId, edited |-> edited]
    /\ Quiet
    /\ UNCHANGED <<markets, aaveMarkets, refresh, fetched, scan, rendered, sweeps, notified>>

\* bot.action("action:wallet:remove:<index>"), a button of the menu on
\* screen, up to the await of editMessageText: ensureUser,
\* wallet = user.ui.walletMenu?.[index], removeWallet(ctx, wallet),
\* walletMenu(user)
RemoveButtonBegin(chatId, index) ==
    /\ cmd.kind = "none"
    /\ shown[chatId].open
    /\ index + 1 \in DOMAIN shown[chatId].list
    /\ LET ensured == ensureUser(db[chatId], "cmd")
           menu == ensured["ui"].val["cmd"].walletMenu
           found == index + 1 \in DOMAIN menu
           wallet == menu[index + 1]
           r == removeWallet(ensured, wallet)
           user == walletMenu(r.user, "cmd")
       IN  IF ~found
           THEN /\ db' = [db EXCEPT ![chatId] = Release(ensured, "cmd")]
                /\ cmd' = NoCmd
                /\ reply' = [op |-> "button:remove", chatId |-> chatId,
                             text |-> "Wallet not found"]
           ELSE /\ db' = [db EXCEPT ![chatId] = user]
                /\ cmd' = [kind |-> "button:remove", chatId |-> chatId,
                           wallet |-> wallet, text |-> r.text, wasLast |-> r.wasLast,
                           menu |-> Menu(WalletKeys(user, "cmd"))]
                /\ reply' = [op |-> "button:remove", chatId |-> chatId,
                             wallet |-> wallet, text |-> r.text, wasLast |-> r.wasLast]
    /\ Quiet
    /\ UNCHANGED <<markets, aaveMarkets, refresh, fetched, scan, rendered, sweeps, notified, shown>>

\* editMessageText resolves (setUser(chatId, user) follows) or rejects; it
\* cannot resolve when the menu it draws is the one on screen
RemoveButtonEnd(edited) ==
    /\ cmd.kind = "button:remove"
    /\ edited => cmd.menu # shown[cmd.chatId]
    /\ db' = [db EXCEPT ![cmd.chatId] =
                 Release(IF edited THEN setUser(@, "cmd") ELSE @, "cmd")]
    /\ shown' = IF edited THEN [shown EXCEPT ![cmd.chatId] = cmd.menu] ELSE shown
    /\ cmd' = NoCmd
    /\ reply' = [op |-> "button:remove:done", chatId |-> cmd.chatId,
                 wallet |-> cmd.wallet, text |-> cmd.text, wasLast |-> cmd.wasLast,
                 edited |-> edited]
    /\ Quiet
    /\ UNCHANGED <<markets, aaveMarkets, refresh, fetched, scan, rendered, sweeps, notified>>

-----------------------------------------------------------------------------
(* src/bot.js: /check (checkWallets) and /refreshmarkets                   *)
(* (refreshMarketsForUser)                                                 *)

ProtocolFilters == {"all", "kamino", "aave"}

\* Object.entries(user.wallets).filter(...) with the protocol filter
FilteredWallets(user, h, protocolFilter) ==
    SelectSeq(WalletKeys(user, h),
              LAMBDA w : protocolFilter = "all"
                         \/ user[w].val[h].protocol = protocolFilter)

Entry(call, text, lines) ==
    [wallet |-> call.wallet, protocol |-> call.protocol, text |-> text, lines |-> lines]

\* The loop of checkWallets up to the next scan that really awaits I/O
RECURSIVE CheckAdvance(_, _, _, _, _)
CheckAdvance(user, chatId, work, catalog, grouped) ==
    IF work = <<>>
    THEN [work |-> <<>>, call |-> NoCall, log |-> <<>>, grouped |-> grouped]
    ELSE LET wallet == Head(work)
             call == TargetedCall("check", chatId, wallet, user[wallet].val["cmd"],
                                  NoThresholds, catalog)
             text == IF call.status = "skipped"
                     THEN "No markets cached. Use /refreshmarkets"
                     ELSE IF call.status = "threw" THEN "Error: Markets not loaded"
                     ELSE "No positions"
         IN  IF call.status = "io"
             THEN [work |-> Tail(work), call |-> call, log |-> <<call>>,
                   grouped |-> grouped]
             ELSE LET rest == CheckAdvance(user, chatId, Tail(work), catalog,
                                           Append(grouped, Entry(call, text, <<>>)))
                  IN  [rest EXCEPT !.log = <<call>> \o @]

\* The loop of refreshMarketsForUser up to the next full scan that awaits
\* I/O; a Kamino scan with an empty catalog throws at once
RECURSIVE RefreshAdvance(_, _, _, _, _)
RefreshAdvance(user, chatId, work, catalog, grouped) ==
    IF work = <<>>
    THEN [work |-> <<>>, call |-> NoCall, log |-> <<>>, grouped |-> grouped]
    ELSE LET wallet == Head(work)
             walletData == user[wallet].val["cmd"]
             protocol == walletData.protocol
             threw == protocol = "kamino" /\ catalog = <<>>
             call == [by |-> "refresh", chatId |-> chatId, wallet |-> wallet,
                      protocol |-> protocol,
                      fn |-> IF protocol = "aave" THEN "scanAaveMarketsForWallet"
                             ELSE "scanAllMarketsForWallet",
                      marketNames |-> walletData.markets,
                      toCheck |-> IF protocol = "aave" THEN <<>> ELSE catalog,
                      thresholds |-> NoThresholds,
                      status |-> IF threw THEN "threw" ELSE "io",
                      positions |-> <<>>, again |-> FALSE, allFailed |-> FALSE]
         IN  IF ~threw
             THEN [work |-> Tail(work), call |-> call, log |-> <<call>>,
                   grouped |-> grouped]
             ELSE LET rest == RefreshAdvance(user, chatId, Tail(work), catalog,
                                  Append(grouped,
                                         Entry(call, "Error: Markets not loaded", <<>>)))
                  IN  [rest EXCEPT !.log = <<call>> \o @]

\* What the steps of both handlers do once the next await (or the end) is
\* known; at its end refreshMarketsForUser calls setUser(chatId, user)
CommandContinue(kind, chatId, user, adv) ==
    IF adv.call.fn = "none"
    THEN /\ db' = [db EXCEPT ![chatId] =
                      Release(IF kind = "refresh" THEN setUser(user, "cmd") ELSE user,
                              "cmd")]
         /\ cmd' = NoCmd
         /\ reply' = [op |-> kind, chatId |-> chatId, text |-> "results",
                      grouped |-> adv.grouped]
         /\ log' = adv.log
    ELSE /\ db' = [db EXCEPT ![chatId] = user]
         /\ cmd' = [kind |-> kind, chatId |-> chatId, pc |-> "await",
                    work |-> adv.work, call |-> adv.call, grouped |-> adv.grouped]
         /\ reply' = NoReply
         /\ log' = adv.log

\* bot.command("check") / bot.command("refreshmarkets") up to the await of
\* the status reply
CommandBegin(kind, chatId, protocolFilter) ==
    /\ cmd.kind = "none"
    /\ LET noWallets == ~Exists(db[chatId]) \/ HeldWallets(db[chatId], "store") = {}
           user == getUser(db[chatId], "cmd")
           wallets == FilteredWallets(user, "cmd", protocolFilter)
       IN  IF noWallets \/ wallets = <<>>
           THEN /\ reply' = [op |-> kind, chatId |-> chatId,
                             text |-> "No wallets configured"]
                /\ UNCHANGED <<db, cmd>>
           ELSE /\ db' = [db EXCEPT ![chatId] = user]
                /\ cmd' = [kind |-> kind, chatId |-> chatId, pc |-> "status",
                           work |-> wallets, call |-> NoCall, grouped |-> <<>>]
                /\ reply' = [op |-> kind, chatId |-> chatId, text |-> "status"]
    /\ Quiet
    /\ UNCHANGED <<markets, aaveMarkets, refresh, fetched, scan, rendered, sweeps, notified, shown>>

CheckBegin(chatId, protocolFilter) == CommandBegin("check", chatId, protocolFilter)

RefreshBegin(chatId, protocolFilter) == CommandBegin("refresh", chatId, protocolFilter)

\* checkWallets after the status reply: the loop starts
CheckResume ==
    /\ cmd.kind = "check" /\ cmd.pc = "status"
    /\ CommandContinue("check", cmd.chatId, db[cmd.chatId],
                       CheckAdvance(db[cmd.chatId], cmd.chatId, cmd.work, markets, <<>>))
    /\ sent' = <<>>
    /\ UNCHANGED <<markets, aaveMarkets, refresh, fetched, scan, rendered, sweeps, notified, shown>>

\* The awaited targeted scan resolves: lines or "No positions", then on
CheckScanDone(outcomes) ==
    /\ cmd.kind = "check" /\ cmd.pc = "await"
    /\ outcomes \in IoOutcomes(cmd.call)
    /\ LET chatId == cmd.chatId
           positions == CallPositions(cmd.call, outcomes)
           entry == IF positions = <<>> THEN Entry(cmd.call, "No positions", <<>>)
                    ELSE Entry(cmd.call, "lines",
                               FormatLines(View(db[chatId], "cmd"), positions,
                                           cmd.call.protocol))
           adv == CheckAdvance(db[chatId], chatId, cmd.work, markets,
                               Append(cmd.grouped, entry))
           done == [cmd.call EXCEPT !.status = "done", !.positions = positions,
                                    !.allFailed = AllFailed(outcomes)]
       IN  CommandContinue("check", chatId, db[chatId],
                           [adv EXCEPT !.log = <<done>> \o @])
    /\ sent' = <<>>
    /\ UNCHANGED <<markets, aaveMarkets, refresh, fetched, scan, rendered, sweeps, notified, shown>>

\* refreshMarketsForUser after the status reply: the loop starts
RefreshResume ==
    /\ cmd.kind = "refresh" /\ cmd.pc = "status"
    /\ CommandContinue("refresh", cmd.chatId, db[cmd.chatId],
                       RefreshAdvance(db[cmd.chatId], cmd.chatId, cmd.work, markets, <<>>))
    /\ sent' = <<>>
    /\ UNCHANGED <<markets, aaveMarkets, refresh, fetched, scan, rendered, sweeps, notified, shown>>

\* The awaited full scan resolves: walletData.markets = the markets of the
\* positions found (or []), then on
RefreshScanDone(outcomes) ==
    /\ cmd.kind = "refresh" /\ cmd.pc = "await"
    /\ outcomes \in IoOutcomes(cmd.call)
    /\ LET chatId == cmd.chatId
           wallet == cmd.call.wallet
           positions == CallPositions(cmd.call, outcomes)
           walletData == db[chatId][wallet].val["cmd"]
           user == [db[chatId] EXCEPT
                      ![wallet] = Write(@, "cmd", [walletData EXCEPT
                                       !.markets = PositionMarkets(positions)])]
           entry == IF positions = <<>> THEN Entry(cmd.call, "No positions found", <<>>)
                    ELSE Entry(cmd.call, "lines",
                               FormatLines(View(user, "cmd"), positions,
                                           cmd.call.protocol))
           adv == RefreshAdvance(user, chatId, cmd.work, markets,
                                 Append(cmd.grouped, entry))
           done == [cmd.call EXCEPT !.status = "done", !.positions = positions,
                                    !.allFailed = AllFailed(outcomes)]
       IN  CommandContinue("refresh", chatId, user, [adv EXCEPT !.log = <<done>> \o @])
    /\ sent' = <<>>
    /\ UNCHANGED <<markets, aaveMarkets, refresh, fetched, scan, rendered, sweeps, notified, shown>>

-----------------------------------------------------------------------------
(* Specifications *)

\* The bot variables before any command, sweep or load
InitBotVars ==
    /\ db = [u \in Users |-> NoUser]
    /\ sweeps = [s \in SweepIds |-> IdleSweep]
    /\ cmd = NoCmd
    /\ sent = <<>>
    /\ reply = NoReply
    /\ log = <<>>
    /\ shown = [u \in Users |-> NoMenu]
    /\ notified = {}

(* The Risk Evaluator on its own *)

InitEval ==
    /\ markets = <<>>
    /\ aaveMarkets = NoAaveMarkets
    /\ refresh = IdleRefresh
    /\ fetched = [ok |-> FALSE, markets |-> <<>>]
    /\ scan = NoScan
    /\ rendered = NotRendered
    /\ InitBotVars

NextEval ==
    \E user \in EvalUsers, position \in EvalPositions, protocol \in Protocols :
        Render(user, position, protocol)

SpecEval == InitEval /\ [][NextEval]_vars

(* The scanner service: src/kamino.js driven by services/kamino/index.js *)

MaxNames == 2

InitScan ==
    /\ markets = <<>>
    /\ aaveMarkets = NoAaveMarkets
    /\ refresh = IdleRefresh
    /\ fetched = [ok |-> FALSE, markets |-> <<>>]
    /\ scan = NoScan
    /\ rendered = NotRendered
    /\ InitBotVars

NextScan ==
    \/ \E list \in CatalogResponses :
          FetchMarketsOk(list) /\ UNCHANGED <<aaveMarkets, refresh, scan, rendered, botVars>>
    \/ FetchMarketsFail /\ UNCHANGED <<aaveMarkets, refresh, scan, rendered, botVars>>
    \/ \E cb \in BOOLEAN : ScanAllBegin(cb)
    \/ \E names \in SeqsUpTo(MarketNames, MaxNames) : CheckSpecificBegin(names)
    \/ \E outcome \in QueryOutcomes : ScanStep(outcome)
    \/ ScanReturn
    \/ ScanDone

SpecScan == InitScan /\ [][NextScan]_vars

(* The scanner over the obligations parseObligation tells apart *)

\* A debt of one dollar against 25000 dollars of deposits (0.004 %)
OblDust     == [stats |-> TRUE,  userTotalBorrow |-> 100, userTotalDeposit |-> 2500000,
                loanToValue |-> 40,     liquidationLtv |-> 800000]
\* A debt left without any deposit and without a liquidation threshold
OblBadDebt  == [stats |-> TRUE,  userTotalBorrow |-> 100, userTotalDeposit |-> 0,
                loanToValue |-> 0,      liquidationLtv |-> 0]
\* Fractions 0.48 / 0.80 (ratio 1.666...) and 0.123456 / 0.654321
OblRound    == [stats |-> TRUE,  userTotalBorrow |-> 100, userTotalDeposit |-> 208,
                loanToValue |-> 480000, liquidationLtv |-> 800000]
OblFine     == [stats |-> TRUE,  userTotalBorrow |-> 100, userTotalDeposit |-> 810,
                loanToValue |-> 123456, liquidationLtv |-> 654321]

ObligationInputs ==
    { OblRisky, OblSafe, OblNoBorrow, OblNoLtv, OblNoStats,
      OblDust, OblBadDebt, OblRound, OblFine }

\* Every market holds at most one obligation of the wallet
ParseOutcomes == {QueryFailed, QueryOk(<<>>)} \cup {QueryOk(<<obl>>) : obl \in ObligationInputs}

ParseCatalogs == { <<MainMarket>>, <<MainMarket, JlpMarket>> }

ParseNames == { <<"Main">>, <<"JLP", "Main">> }

\* The user the positions are formatted for: no thresholds stored, or 2 / 1.6
ParseUsers ==
    { [settings |-> [kamino |-> k, aave |-> NoSettings]] :
        k \in {NoSettings, [warningHealthFactor |-> Num(200),
                            dangerHealthFactor |-> Num(160)]} }

\* positions.map(p => formatPosition({ user, position: p, protocol })) on
\* what a scan has returned
RenderReturned(user, i) ==
    /\ scan.status = "returned"
    /\ i \in 1..Len(scan.results)
    /\ Render(user, scan.results[i], "kamino")

NextParse ==
    \/ \E user \in ParseUsers, i \in DOMAIN <<MainMarket, JlpMarket>> : RenderReturned(user, i)
    \/ \E list \in ParseCatalogs :
          FetchMarketsOk(list) /\ UNCHANGED <<aaveMarkets, refresh, scan, rendered, botVars>>
    \/ ScanAllBegin(FALSE)
    \/ \E names \in ParseNames : CheckSpecificBegin(names)
    \/ \E outcome \in ParseOutcomes : ScanStep(outcome)
    \/ ScanReturn
    \/ ScanDone

SpecParse == InitScan /\ [][NextParse]_vars

(* The bot.  Its handlers interleave at their awaits on the one event     *)
(* loop.  Three specifications put the sweep together with the handlers   *)
(* it can race with, with the checks and refreshes that read and write    *)
(* the cached market lists, and the handlers of the wallets menu.         *)

\* Values a user may send to /setwarning
WarningInputs == {Num(200), NaN}

\* Indexes of the remove buttons of a wallets menu
MenuIndexes == {0, 1}

InitBot ==
    /\ markets = <<>>
    /\ aaveMarkets = NoAaveMarkets
    /\ refresh = IdleRefresh
    /\ fetched = [ok |-> FALSE, markets |-> <<>>]
    /\ scan = NoScan
    /\ rendered = NotRendered
    /\ InitBotVars

\* refreshMarketsBackground() / init(): fetchMarkets() resolves
BackgroundFetchOk(list) ==
    /\ FetchMarketsOk(list)
    /\ reply' = NoReply
    /\ Quiet
    /\ UNCHANGED <<aaveMarkets, refresh, scan, rendered, db, sweeps, cmd, notified, shown>>

(* The sweep and the commands that change the user store while it awaits *)

SweepCatalogs == { <<MainMarket, JlpMarket>> }

\* What the scan of addWallet may find, and what a scan of the sweep may
AddOutcomes ==
    { <<QueryOk(<<OblRisky>>), QueryOk(<<OblSafe>>)>>, <<QueryFailed, QueryFailed>>,
      <<NetworkOk(<<AaveRisky>>), NetworkOk(<<AaveSafe>>), NetworkFailed>>,
      <<NetworkFailed, NetworkFailed, NetworkFailed>> }

SweepOutcomes ==
    { <<QueryFailed, QueryFailed>>, <<QueryOk(<<OblRisky>>), QueryOk(<<OblSafe>>)>>,
      <<QueryOk(<<OblRisky>>), QueryOk(<<OblRisky>>)>>,
      <<QueryOk(<<OblSafe>>), QueryFailed>>,
      <<QueryOk(<<OblNoLtv>>), QueryOk(<<OblSafe>>)>>,
      <<QueryOk(<<>>), QueryOk(<<>>)>>,
      <<NetworkFailed, NetworkFailed, NetworkFailed>>,
      <<NetworkOk(<<AaveRisky>>), NetworkFailed, NetworkOk(<<>>)>>,
      <<NetworkOk(<<AaveRisky>>), NetworkOk(<<AaveSafe>>), NetworkFailed>>,
      <<NetworkFailed, NetworkOk(<<AaveSafe>>), NetworkOk(<<>>)>> }

NextSweep ==
    \/ \E list \in SweepCatalogs : BackgroundFetchOk(list)
    \/ \E chatId \in Users :
        \/ Stop(chatId)
        \/ \E wallet \in Wallets : Remove(chatId, wallet)
        \/ \E value \in WarningInputs, protocol \in Protocols :
              SetWarning(chatId, value, protocol)
        \/ \E wallet \in Wallets : AddWalletBegin(chatId, wallet)
    \/ \E outcomes \in AddOutcomes : AddWalletEnd(outcomes)
    \/ \E outcomes \in SweepOutcomes, s \in SweepIds : SweepScanDone(s, outcomes)
    \/ \E s \in SweepIds : SweepStart(s)

SpecSweep == InitBot /\ [][NextSweep]_vars

(* The sweep, /check and /refreshmarkets over the cached market lists *)

CheckCatalogs == { <<>>, <<MainMarket>>, <<JlpMarket>> }

CheckOutcomes ==
    { <<QueryFailed>>, <<QueryOk(<<>>)>>, <<QueryOk(<<OblSafe>>)>>,
      <<NetworkFailed, NetworkFailed, NetworkFailed>>,
      <<NetworkFailed, NetworkOk(<<AaveSafe>>), NetworkOk(<<>>)>> }

NextCheck ==
    \/ \E list \in CheckCatalogs : BackgroundFetchOk(list)
    \/ \E chatId \in Users :
        \/ \E wallet \in Wallets : AddWalletBegin(chatId, wallet)
        \/ \E protocolFilter \in ProtocolFilters : CheckBegin(chatId, protocolFilter)
        \/ \E protocolFilter \in ProtocolFilters : RefreshBegin(chatId, protocolFilter)
    \/ \E outcomes \in CheckOutcomes :
        \/ AddWalletEnd(outcomes)
        \/ CheckScanDone(outcomes)
        \/ RefreshScanDone(outcomes)
        \/ \E s \in SweepIds : SweepScanDone(s, outcomes)
    \/ CheckResume
    \/ RefreshResume
    \/ \E s \in SweepIds : SweepStart(s)

SpecCheck == InitBot /\ [][NextCheck]_vars

(* The wallets menu and the three ways to remove a wallet *)

RemoveCatalogs == { <<MainMarket>> }

RemoveOutcomes ==
    { <<QueryFailed>>, <<QueryOk(<<OblRisky>>)>>,
      <<NetworkFailed, NetworkFailed, NetworkFailed>>,
      <<NetworkOk(<<AaveRisky>>), NetworkFailed, NetworkOk(<<>>)>> }

NextRemove ==
    \/ \E list \in RemoveCatalogs : BackgroundFetchOk(list)
    \/ \E chatId \in Users :
        \/ Stop(chatId)
        \/ \E wallet \in Wallets : Remove(chatId, wallet)
        \/ ActionRemoveWallet(chatId)
        \/ \E text \in Wallets : Text(chatId, text)
        \/ \E wallet \in Wallets : AddWalletBegin(chatId, wallet)
        \/ MenuWalletsBegin(chatId)
        \/ \E index \in MenuIndexes : RemoveButtonBegin(chatId, index)
    \/ \E outcomes \in RemoveOutcomes : AddWalletEnd(outcomes)
    \/ \E edited \in BOOLEAN :
        \/ MenuWalletsEnd(edited)
        \/ RemoveButtonEnd(edited)

SpecRemove == InitBot /\ [][NextRemove]_vars

(* The sweep over wallets whose scan fails: the catalog may have been     *)
(* emptied by a refresh after a wallet was added                           *)

FailureCatalogs == { <<>>, <<MainMarket>> }

FailureOutcomes ==
    { <<QueryFailed>>, <<QueryOk(<<OblRisky>>)>>, <<QueryOk(<<OblSafe>>)>>,
      <<NetworkFailed, NetworkFailed, NetworkFailed>>,
      <<NetworkOk(<<AaveRisky>>), NetworkFailed, NetworkOk(<<>>)>>,
      <<NetworkFailed, NetworkOk(<<AaveSafe>>), NetworkOk(<<>>)>> }

NextFailure ==
    \/ \E list \in FailureCatalogs : BackgroundFetchOk(list)
    \/ \E chatId \in Users, wallet \in Wallets : AddWalletBegin(chatId, wallet)
    \/ \E outcomes \in FailureOutcomes : AddWalletEnd(outcomes)
    \/ \E outcomes \in FailureOutcomes, s \in SweepIds : SweepScanDone(s, outcomes)
    \/ \E s \in SweepIds : SweepStart(s)

SpecFailure == InitBot /\ [][NextFailure]_vars

(* The threshold settings: the two commands, the protocol menu and the    *)
(* pending-text flow of the settings buttons                               *)

\* What a user may send as the value of /setwarning: 1.2, 2x, 0, -1, abc,
\* and nothing at all; of /setdanger: 1.2 and 0; after a settings button:
\* Infinity and abc
WarningTexts ==
    { <<"1", ".", "2">>, <<"2", "x">>, <<"0">>, <<"-", "1">>, <<"a", "b", "c">>, <<>> }

DangerTexts == { <<"1", ".", "2">>, <<"0">> }

PendingTexts == { <<"Infinity">>, <<"a", "b", "c">> }

\* parts[2]?.toLowerCase(): missing, a protocol, or something else
WarningProtocolArgs == {"undefined", "kamino", "solana"}

DangerProtocolArgs == {"undefined", "aave"}

NextThresholds ==
    \E chatId \in Users :
        \/ \E text \in WarningTexts, protocolArg \in WarningProtocolArgs :
              SetWarningCommand(chatId, text, protocolArg)
        \/ \E text \in DangerTexts, protocolArg \in DangerProtocolArgs :
              SetDangerCommand(chatId, text, protocolArg)
        \/ \E protocol \in Protocols : MenuProtocol(chatId, protocol)
        \/ \E action \in {"setwarning", "setdanger"}, protocol \in Protocols :
              ActionSetThreshold(chatId, action, protocol)
        \/ \E text \in PendingTexts : TextThresholdBegin(chatId, text)
        \/ TextThresholdEnd

SpecThresholds == InitBot /\ [][NextThresholds]_vars

(* The catalog refresh at start-up and in the background *)

\* The catalogs loadDb() may find in db-kamino.json and db-aave.json
InitRefresh ==
    /\ markets \in CatalogResponses
    /\ aaveMarkets \in [Range(AaveNetworks) -> {<<>>, <<"USDC">>}]
    /\ refresh = IdleRefresh
    /\ fetched = [ok |-> FALSE, markets |-> <<>>]
    /\ scan = NoScan
    /\ rendered = NotRendered
    /\ InitBotVars

NextRefresh ==
    \/ InitStart
    \/ BackgroundStart
    \/ \E list \in CatalogResponses : KaminoFetched(list)
    \/ KaminoFetchFailed
    \/ \E attempt \in {FetchRejected} \cup {FetchResolved(r) : r \in ReserveLists} :
          AaveAttempt(attempt)
    \/ InitLaunch

SpecRefresh == InitRefresh /\ [][NextRefresh]_vars

(* The two timers of init(): setInterval(checkAllUsers, CHECK_INTERVAL)  *)
(* and setTimeout(checkAllUsers, 5000).  A timer that fires calls         *)
(* checkAllUsers() whatever else is in progress: each call is a run of    *)
(* its own, with its own snapshot and its own place in the loops.         *)

\* Two calls of checkAllUsers(): any two of the ticks and the one-shot
SweepCalls == {"sweep1", "sweep2"}

TimerOutcomes ==
    { <<QueryFailed, QueryFailed>>, <<QueryOk(<<OblRisky>>), QueryOk(<<OblSafe>>)>>,
      <<NetworkOk(<<AaveRisky>>), NetworkFailed, NetworkOk(<<>>)>> }

InitTimers ==
    /\ markets = <<>>
    /\ aaveMarkets = NoAaveMarkets
    /\ refresh = IdleRefresh
    /\ fetched = [ok |-> FALSE, markets |-> <<>>]
    /\ scan = NoScan
    /\ rendered = NotRendered
    /\ db = [u \in Users |-> NoUser]
    /\ sweeps = [s \in SweepCalls |-> IdleSweep]
    /\ cmd = NoCmd
    /\ sent = <<>>
    /\ reply = NoReply
    /\ log = <<>>
    /\ shown = [u \in Users |-> NoMenu]
    /\ notified = {}

NextTimers ==
    \/ \E list \in SweepCatalogs : BackgroundFetchOk(list)
    \/ \E chatId \in Users, wallet \in Wallets : AddWalletBegin(chatId, wallet)
    \/ \E outcomes \in AddOutcomes : AddWalletEnd(outcomes)
    \/ \E s \in SweepCalls : SweepStart(s)
    \/ \E outcomes \in TimerOutcomes, s \in SweepCalls : SweepScanDone(s, outcomes)

SpecTimers == InitTimers /\ [][NextTimers]_vars

(* The sweep after /setwarning and /setdanger: thresholds in either order *)

\* /setwarning 1 and /setdanger 2, for the protocol given as argument
NotifyWarningTexts == { <<"1">> }
NotifyDangerTexts == { <<"2">> }

NotifyOutcomes ==
    { <<QueryOk(<<OblRisky>>), QueryOk(<<OblSafe>>)>>,
      <<NetworkFailed, NetworkOk(<<AaveSafe>>), NetworkOk(<<>>)>> }

NextNotify ==
    \/ \E list \in SweepCatalogs : BackgroundFetchOk(list)
    \/ \E chatId \in Users :
        \/ \E wallet \in Wallets : AddWalletBegin(chatId, wallet)
        \/ \E text \in NotifyWarningTexts, protocolArg \in Protocols :
              SetWarningCommand(chatId, text, protocolArg)
        \/ \E text \in NotifyDangerTexts, protocolArg \in Protocols :
              SetDangerCommand(chatId, text, protocolArg)
    \/ \E outcomes \in NotifyOutcomes : AddWalletEnd(outcomes)
    \/ \E outcomes \in NotifyOutcomes, s \in SweepIds : SweepScanDone(s, outcomes)
    \/ \E s \in SweepIds : SweepStart(s)

SpecNotify == InitBot /\ [][NextNotify]_vars

(* The core service: adding a wallet, then checking the user's wallets,  *)
(* while every Kamino market holds an open position of the wallet and     *)
(* every query succeeds                                                    *)

CoreCatalogs == { <<MainMarket>>, <<JlpMarket>>, <<MainMarket, JlpMarket>> }

OpenOutcomes ==
    { <<QueryOk(<<OblRisky>>)>>, <<QueryOk(<<OblRisky>>), QueryOk(<<OblSafe>>)>>, <<>> }
    \cup AaveScanOutcomes

NextCore ==
    \/ \E list \in CoreCatalogs : BackgroundFetchOk(list)
    \/ \E userId \in Users, wallet \in Wallets : ApiWalletsAddBegin(userId, Address[wallet])
    \/ \E outcomes \in OpenOutcomes : ApiWalletsAddEnd(outcomes)
    \/ \E userId \in Users : ApiUsersCheckBegin(userId)
    \/ \E outcomes \in OpenOutcomes : ApiUsersCheckStep(outcomes)

SpecCore == InitBot /\ [][NextCore]_vars

(* The Aave scanner on its own *)

\* Account data: a risky position (LTV 60 %, health factor 1.3333), no
\* debt, no collateral, a health factor of zero, a health factor of 0.004
\* (50 cents of collateral left against a debt of 100 dollars) and a debt
\* of one cent against 1000 dollars
AccRisky        == AccountData(6000, 10000, 8000, 13333)
AccNoDebt       == AccountData(0, 10000, 8000, 1000000)
AccNoCollateral == AccountData(6000, 0, 0, 0)
AccZeroHf       == AccountData(6000, 10000, 0, 0)
AccDustHf       == AccountData(10000, 50, 8000, 40)
AccDustLtv      == AccountData(1, 100000, 8000, 800000000)

AccountInputs ==
    { AccRisky, AccNoDebt, AccNoCollateral, AccZeroHf, AccDustHf, AccDustLtv }

\* What an attempt of the scan may settle to
AaveAttempts ==
    { RpcFailed(0, <<>>), RpcFailed(1, <<"USDC">>) }
    \cup { RpcOk(acc, <<Reserve("USDC", 5)>>, 1, <<"USDC">>) : acc \in AccountInputs }
    \cup { RpcOk(AccRisky, <<Reserve("USDC", 0), Reserve("USDT", 5)>>, 1, <<"USDC">>),
           RpcOk(AccRisky, <<Reserve("USDC", 5)>>, 0, <<>>),
           RpcOk(AccRisky, <<Reserve("USDC", 5)>>, 2, <<"USDC">>) }

\* The Aave catalogs loadDb() may find in db-aave.json
InitAave ==
    /\ markets = <<>>
    /\ aaveMarkets \in [Range(AaveNetworks) -> {<<>>, <<"USDC">>}]
    /\ refresh = IdleRefresh
    /\ fetched = [ok |-> FALSE, markets |-> <<>>]
    /\ scan = NoScan
    /\ rendered = NotRendered
    /\ InitBotVars

NextAave ==
    \/ AaveScanBegin
    \/ \E attempt \in AaveAttempts : AaveScanAttempt(attempt)
    \/ ScanDone

SpecAave == InitAave /\ [][NextAave]_vars

(* Adding a wallet: the /add command of src/bot.js and the add route of   *)
(* the core service                                                        *)

\* What a user may send as the address: nothing, base58 strings of 31, 32,
\* 44 and 45 characters, 40 hex letters without prefix, 34 characters
\* outside both alphabets, 34 zeros, and "0x" followed by 40 hex letters,
\* 40 zeros, 39 or 41 hex letters, or 40 letters that are not hex
AddressInputs ==
    { <<>>, <<Run("G", 31)>>, <<Run("G", 32)>>, <<Run("G", 44)>>, <<Run("G", 45)>>,
      <<Run("a", 40)>>, <<Run("O", 34)>>, <<Run("0", 34)>>,
      <<Run("0", 1), Run("x", 1), Run("a", 40)>>,
      <<Run("0", 1), Run("x", 1), Run("0", 40)>>,
      <<Run("0", 1), Run("x", 1), Run("a", 39)>>,
      <<Run("0", 1), Run("x", 1), Run("a", 41)>>,
      <<Run("0", 1), Run("x", 1), Run("G", 40)>> }

NextAdd ==
    \/ \E list \in CatalogResponses : BackgroundFetchOk(list)
    \/ \E chatId \in Users, address \in AddressInputs : addWallet(chatId, address)
    \/ \E outcomes \in AddOutcomes : AddWalletEnd(outcomes)
    \/ \E userId \in Users, address \in AddressInputs : ApiWalletsAddBegin(userId, address)
    \/ \E outcomes \in AddOutcomes : ApiWalletsAddEnd(outcomes)

SpecAdd == InitBot /\ [][NextAdd]_vars

-----------------------------------------------------------------------------
(* Claims about the scanner (checked under SpecScan) *)

\* The positions one successful query contributes, in the order returned
RECURSIVE PositionsOf(_, _)
PositionsOf(obligations, marketName) ==
    IF obligations = <<>> THEN <<>>
    ELSE LET pos == parseObligation(Head(obligations), marketName)
         IN  (IF pos.none THEN <<>> ELSE <<pos>>)
             \o PositionsOf(Tail(obligations), marketName)

\* The concatenation, in catalog order, of what the successful markets gave
RECURSIVE ConcatSuccessful(_, _)
ConcatSuccessful(mkts, outcomes) ==
    IF mkts = <<>> \/ outcomes = <<>> THEN <<>>
    ELSE (IF Head(outcomes).ok
          THEN PositionsOf(Head(outcomes).obligations, Head(mkts).name)
          ELSE <<>>)
         \o ConcatSuccessful(Tail(mkts), Tail(outcomes))

FullScan == scan.fn = "scanAllMarketsForWallet"
TargetedScan == scan.fn = "checkSpecificMarkets"

\* C1: a full scan over a catalog of N >= 1 markets never throws; it queries
\* every market of the catalog in catalog order whatever failed before, and
\* what it returns is exactly the concatenation, in catalog order, of the
\* positions of the markets whose query succeeded (a failed market gives none).
\* (The only throw of the full scan is "Markets not loaded", for N = 0.)
C1_FullScanIsConcatOfSuccessful ==
    FullScan =>
        /\ scan.status = "threw" => scan.allMarkets = <<>>
        /\ scan.results = ConcatSuccessful(scan.markets, scan.outcomes)
        /\ scan.queried = [i \in 1..Len(scan.outcomes) |-> scan.markets[i].lendingMarket]
        /\ scan.status = "returned" =>
              /\ scan.markets = scan.allMarkets
              /\ Len(scan.outcomes) = Len(scan.allMarkets)

\* C1 witness: N = 2, the first market failed (M = 1), the second one was
\* still queried and its position is what the scan returned
C1_Witness ==
    /\ FullScan
    /\ scan.status = "returned"
    /\ Len(scan.markets) = 2
    /\ ~scan.outcomes[1].ok
    /\ scan.outcomes[2].ok
    /\ Len(scan.results) = 1
    /\ scan.results[1].market = scan.markets[2].name

\* C8: a targeted scan called with an empty market-name list returns an empty
\* result and makes no per-market query, whatever the catalog holds.
C8_EmptyListReturnsEmpty ==
    (TargetedScan /\ scan.marketNames = <<>>) =>
        /\ scan.status # "threw"
        /\ scan.results = <<>>
        /\ scan.queried = <<>>

\* The markets of a catalog whose name is on a list
Listed(allMarkets, marketNames) ==
    {m \in Range(allMarkets) : m.name \in Range(marketNames)}

\* C9 as stated: a targeted scan that has returned issued one query for each
\* distinct name of the cached list and none outside it, whatever the catalog.
C9_OneQueryPerCachedName ==
    (TargetedScan /\ scan.status = "returned") =>
        /\ {m.name : m \in {x \in Range(scan.allMarkets) :
                              x.lendingMarket \in Range(scan.queried)}}
              = Range(scan.marketNames)
        /\ Len(scan.queried) = Cardinality(Range(scan.marketNames))

\* C9 amended: a targeted scan queries only markets of the catalog it read at
\* its start whose name is on the cached list: no market outside the list is
\* ever queried, and once it returns it has queried each listed market of that
\* catalog exactly once; a cached name the catalog no longer holds is not
\* queried, and with an empty catalog the scan throws without any query.
C9_QueriesListedCatalogMarkets ==
    TargetedScan =>
        /\ \A pk \in Range(scan.queried) :
              \E m \in Listed(scan.allMarkets, scan.marketNames) : m.lendingMarket = pk
        /\ scan.status = "returned" =>
              /\ Range(scan.queried) =
                    {m.lendingMarket : m \in Listed(scan.allMarkets, scan.marketNames)}
              /\ Len(scan.queried) = Cardinality(Range(scan.queried))
        /\ scan.status = "threw" => (scan.allMarkets = <<>> /\ scan.queried = <<>>)

\* C9 witness: the list names two markets, the catalog read by the scan holds
\* only one of them (and that one is queried)
C9_Witness ==
    /\ TargetedScan
    /\ scan.status = "returned"
    /\ Range(scan.marketNames) = {"Main", "JLP"}
    /\ scan.allMarkets = <<JlpMarket>>
    /\ scan.queried = <<"pkJLP">>

\* C10: a catalog that was non-empty is never emptied by a refresh.
C10_RefreshNeverClearsCatalog ==
    [][markets # <<>> => markets' # <<>>]_vars

-----------------------------------------------------------------------------
(* Claims about the Risk Evaluator (checked under SpecEval) *)

\* C3: the tier is DANGER iff healthFactor <= danger, WARNING iff
\* healthFactor > danger and healthFactor <= warning, SAFE otherwise, with the
\* thresholds resolved for the protocol; also when danger is above warning.
C3_TierAssignment ==
    rendered.protocol # "none" =>
        LET hf == rendered.line.healthFactor
            s  == rendered.settings
            w  == IF s.warningHealthFactor = Unset THEN Num(150) ELSE s.warningHealthFactor
            d  == IF s.dangerHealthFactor = Unset THEN Num(130) ELSE s.dangerHealthFactor
        IN  /\ rendered.line.prefix \in {"SAFE", "WARNING", "DANGER"}
            /\ rendered.line.prefix = "DANGER" <=> Leq(hf, d)
            /\ rendered.line.prefix = "WARNING" <=> (Gt(hf, d) /\ Leq(hf, w))
            /\ rendered.line.prefix = "SAFE" <=> ~Leq(hf, d) /\ ~(Gt(hf, d) /\ Leq(hf, w))

\* C3 witness: inverted thresholds (danger 2.0, warning 1.5) and a health
\* factor of 1.8 render as DANGER
C3_Witness ==
    /\ rendered.protocol = "kamino"
    /\ rendered.settings = [warningHealthFactor |-> Num(150),
                             dangerHealthFactor |-> Num(200)]
    /\ rendered.line.healthFactor = Num(180)
    /\ rendered.line.prefix = "DANGER"

-----------------------------------------------------------------------------
(* Claims about the background sweep *)

\* The step just taken resolved an awaited scan of a sweep
SweepResolved == log # <<>> /\ log[1].status = "done" /\ log[1].by \in SweepIds

\* "finite and at or below the warning threshold"
AtOrBelowWarning(position, warning) ==
    /\ position.healthFactor.kind = "num"
    /\ \/ warning.kind = "inf"
       \/ warning.kind = "num" /\ position.healthFactor.v <= warning.v

Triggering(entry) ==
    {i \in 1..Len(entry.positions) :
        AtOrBelowWarning(entry.positions[i], entry.thresholds.warning)}

\* "the user's warning threshold for the wallet's protocol (default 1.5)"
WarningOf(user, protocol) ==
    IF user.settings[protocol].warningHealthFactor.kind = "unset"
    THEN Num(150)
    ELSE user.settings[protocol].warningHealthFactor

\* C2: when a scan of the sweep resolves, the messages sent in that step are
\* exactly one per position whose health factor is finite and at or below
\* the warning threshold, each to the wallet's user and listing every
\* position of the wallet in order; no other step sends a message.  The
\* warning threshold is the one of the user object the sweep holds, read
\* when the scan of the wallet begins (1.5 when unset).
C2_OneMessagePerPositionAtOrBelowWarning ==
    /\ SweepResolved =>
          /\ Len(sent) = Cardinality(Triggering(log[1]))
          /\ \A m \in 1..Len(sent) :
                /\ sent[m].chatId = log[1].chatId
                /\ sent[m].wallet = log[1].wallet
                /\ Len(sent[m].lines) = Len(log[1].positions)
                /\ \A i \in 1..Len(log[1].positions) :
                      /\ sent[m].lines[i].market = log[1].positions[i].market
                      /\ sent[m].lines[i].healthFactor = log[1].positions[i].healthFactor
    /\ ~SweepResolved => sent = <<>>
    /\ \A s \in SweepIds :
          (sweeps[s].pc = "await" /\ log # <<>> /\ log[Len(log)] = sweeps[s].call)
          => sweeps[s].call.thresholds.warning
               = WarningOf(View(db[sweeps[s].call.chatId], s), sweeps[s].call.protocol)

\* A wallet with two positions, one at or below warning and one above: one
\* message that lists both
C2_Witness ==
    /\ SweepResolved
    /\ Len(log[1].positions) = 2
    /\ Cardinality(Triggering(log[1])) = 1
    /\ Len(sent) = 1
    /\ Len(sent[1].lines) = 2

\* C4: a wallet the sweep has already sent a message about in an earlier
\* sweep is reported again whenever its scan resolves with a position at or
\* below warning: nothing remembered from the earlier sweep keeps it quiet.
C4_NoSuppressionAcrossSweeps ==
    (SweepResolved /\ log[1].again /\ Triggering(log[1]) # {})
    => /\ sent # <<>>
       /\ \A m \in 1..Len(sent) : sent[m].wallet = log[1].wallet

C4_Witness ==
    /\ SweepResolved
    /\ log[1].again
    /\ <<log[1].chatId, log[1].wallet>> \in notified
    /\ Triggering(log[1]) # {}
    /\ sent # <<>>

\* A step of a sweep: only checkAllUsers changes `sweeps`
SweepStep == \E s \in SweepIds : sweeps'[s] # sweeps[s]

\* C5: no step of the sweep changes what the user store holds for any user.
C5_SweepNeverWritesUserStore ==
    [][SweepStep => \A u \in Users : Stored(db'[u]) = Stored(db[u])]_vars

-----------------------------------------------------------------------------
(* Claims about removing a wallet *)

\* The step being taken is removeWallet() finding and removing the wallet:
\* in /remove, in the pending text flow, or in the handler of the button
RemovesWallet ==
    /\ reply'.op \in {"remove", "text:removewallet", "button:remove"}
    /\ reply'.text = "Wallet removed"

\* The step being taken is the rest of the button's handler, which
\* completes the action after its removeWallet() removed the wallet
CompletesButtonRemove ==
    /\ reply'.op = "button:remove:done"
    /\ reply'.text = "Wallet removed"

\* C6: when a remove-wallet action removes a wallet, the store is left with
\* no subscription for the address and, if the wallet was the user's last,
\* with no record of the user; and the step that completes the action of
\* the remove button leaves it so: it puts back neither the subscription
\* nor the record.
C6_RemovedWalletIsGone ==
    [][/\ RemovesWallet =>
            /\ ~Holds(db'[reply'.chatId], "store", reply'.wallet)
            /\ reply'.wasLast => ~Exists(db'[reply'.chatId])
       /\ CompletesButtonRemove =>
            /\ Holds(db'[reply'.chatId], "store", reply'.wallet)
                 => Holds(db[reply'.chatId], "store", reply'.wallet)
            /\ Exists(db'[reply'.chatId]) => Exists(db[reply'.chatId])]_vars

-----------------------------------------------------------------------------
(* Claims about wallets with an empty cached market list *)

SweepOrCheck(entry) == entry.by \in SweepIds \cup {"check"}

\* The groups of results /check has collected so far, or has just replied
CheckGrouped ==
    IF cmd.kind = "check" THEN cmd.grouped
    ELSE IF reply.op = "check" /\ reply.text = "results" THEN reply.grouped
    ELSE <<>>

\* C7: every wallet the sweep or /check has gone through in a step was
\* either a Kamino wallet with an empty cached list, passed over with no
\* scan call at all (no message by the sweep, "No markets cached" by
\* /check), or was given the targeted scan of its own protocol, which for
\* Kamino has a non-empty list and only markets named in it to query.
C7_EmptyCachedListIsNeverScanned ==
    \A i \in 1..Len(log) :
        SweepOrCheck(log[i]) =>
            IF log[i].protocol = "kamino" /\ log[i].marketNames = <<>>
            THEN /\ log[i].status = "skipped"
                 /\ log[i].fn = "none"
                 /\ log[i].toCheck = <<>>
                 /\ log[i].by = "check" =>
                       \E g \in 1..Len(CheckGrouped) :
                           /\ CheckGrouped[g].wallet = log[i].wallet
                           /\ CheckGrouped[g].text = "No markets cached. Use /refreshmarkets"
                 /\ log[i].by \in SweepIds => sent = <<>> \/ sent[1].wallet # log[i].wallet
            ELSE /\ log[i].status # "skipped"
                 /\ log[i].fn = IF log[i].protocol = "aave" THEN "checkAaveMarkets"
                                ELSE "checkSpecificMarkets"
                 /\ \A j \in 1..Len(log[i].toCheck) :
                       log[i].toCheck[j].name \in Range(log[i].marketNames)

\* A sweep passes over a Kamino wallet with an empty cached list and begins
\* the Aave scan of the user's other wallet
C7_Witness ==
    /\ Len(log) = 2
    /\ log[1].by \in SweepIds
    /\ log[1].protocol = "kamino" /\ log[1].marketNames = <<>> /\ log[1].status = "skipped"
    /\ log[2].protocol = "aave" /\ log[2].fn = "checkAaveMarkets" /\ log[2].status = "io"

-----------------------------------------------------------------------------
(* A claim about the progress callback of the full scan (checked under    *)
(* SpecScan)                                                              *)

\* C26: a full scan given a progress callback calls it once after each
\* market, whether the query of the market completed or failed: after k
\* markets the calls made are (current, total) = (0, N) .. (k - 1, N), so N
\* calls when the scan returns; without a callback none is made, and the
\* positions are the same function of the markets and of their outcomes
\* either way.
C26_ProgressOncePerMarket ==
    FullScan =>
        /\ scan.progress =
              IF scan.callback
              THEN [i \in 1..Len(scan.outcomes) |->
                       [current |-> i - 1, total |-> Len(scan.markets)]]
              ELSE <<>>
        /\ (scan.status = "returned" /\ scan.callback) =>
              Len(scan.progress) = Len(scan.allMarkets)
        /\ scan.results = ConcatSuccessful(scan.markets, scan.outcomes)

\* C26 witness: a full scan with a callback over N = 2 markets has returned;
\* the first market failed and the callback was still called for it
C26_Witness ==
    /\ FullScan
    /\ scan.callback
    /\ scan.status = "returned"
    /\ Len(scan.allMarkets) = 2
    /\ ~scan.outcomes[1].ok
    /\ scan.outcomes[2].ok
    /\ scan.results # <<>>
    /\ scan.progress = <<[current |-> 0, total |-> 2], [current |-> 1, total |-> 2]>>

-----------------------------------------------------------------------------
(* Claims about the catalog refresh (checked under SpecRefresh) *)

\* The step being taken resolves a catalog fetch with a failure
FetchFails == refresh' # refresh /\ ~refresh'.last.ok

\* The failure ends the fetch of its catalog: the Kamino fetch failed, or
\* the last RPC url of a network failed
RefreshFails == FetchFails /\ (refresh'.last.what = "kamino" \/ refresh'.last.exhausted)

\* C11: a failed catalog fetch (the Kamino request fails, or an RPC attempt
\* of an Aave network fails, up to all of them) leaves the cached Kamino
\* catalog and every cached Aave list exactly as they were; a failed refresh
\* is logged, and the run it belongs to goes on: init() still reaches
\* bot.launch() and the background refresh returns to idle.
C11_FailedRefreshKeepsCache ==
    [][/\ FetchFails => (markets' = markets /\ aaveMarkets' = aaveMarkets)
       /\ RefreshFails =>
            /\ refresh'.logged # <<>>
            /\ refresh'.pc \in {"aave", "launch", "idle"}
            /\ refresh'.pc = "launch" <=> refresh.by = "init" /\ refresh'.pc # "aave"
            /\ refresh'.launched = refresh.launched]_vars

\* C11 witness: a background refresh has just failed on every RPC url of a
\* network (and logged it); the list cached for that network and the Kamino
\* catalog fetched before are still there
C11_Witness ==
    /\ refresh.launched
    /\ refresh.by = "background"
    /\ refresh.last.exhausted
    /\ refresh.logged = <<"Failed to fetch Aave markets">>
    /\ fetched.ok
    /\ markets # <<>>
    /\ \E key \in Range(AaveNetworks) :
          refresh.last.what = key /\ aaveMarkets[key] # <<>>

\* C25: the Aave catalog is refreshed and cached per network: an attempt for
\* one network never changes the list cached for another; a network whose
\* fetch failed keeps the list it had; after the failure on its last url the
\* refresh goes on with the next network from its first url (after the last
\* network it ends as a run without failure does), and the failure is logged
\* by fetchAaveMarketsAll, not thrown to the catch of the run.
C25_AaveRefreshIsPerNetwork ==
    [][(refresh.pc = "aave" /\ refresh' # refresh) =>
          LET key == AaveNetworks[refresh.network]
          IN  /\ \A other \in Range(AaveNetworks) \ {key} :
                    aaveMarkets'[other] = aaveMarkets[other]
              /\ ~refresh'.last.ok => aaveMarkets'[key] = aaveMarkets[key]
              /\ refresh'.last.exhausted =>
                    /\ refresh'.logged = <<"Failed to fetch Aave markets">>
                    /\ IF refresh.network < Len(AaveNetworks)
                       THEN /\ refresh'.pc = "aave"
                            /\ refresh'.network = refresh.network + 1
                            /\ refresh'.url = 1
                       ELSE refresh' = [AfterCatalogs(refresh) EXCEPT
                                          !.logged = refresh'.logged,
                                          !.last = refresh'.last]]_vars

\* C25 witness: in one refresh the list of Ethereum was replaced, then every
\* url of Arbitrum failed: the list cached for Arbitrum is still there and
\* the refresh is about to fetch Base
C25_Witness ==
    /\ refresh.pc = "aave"
    /\ refresh.network = 3 /\ refresh.url = 1
    /\ refresh.last = [what |-> "arb", ok |-> FALSE, exhausted |-> TRUE]
    /\ aaveMarkets["eth"] = <<"USDC", "USDT">>
    /\ aaveMarkets["arb"] = <<"USDC">>

-----------------------------------------------------------------------------
(* Claims about scans that cannot succeed (checked under SpecCheck) *)

\* The groups of results /check or /refreshmarkets has collected so far, or
\* has just replied
Grouped ==
    IF cmd.kind \in {"check", "refresh"} THEN cmd.grouped
    ELSE IF reply.op \in {"check", "refresh"} /\ reply.text = "results" THEN reply.grouped
    ELSE <<>>

\* C12: with an empty cached Kamino catalog a Kamino scan does not fail with
\* "Markets not loaded": no scan of a command or of the sweep throws it, and
\* no reply to add-wallet, check or refresh-markets carries it (the catalog
\* would be fetched on demand instead).
C12_EmptyCatalogIsFetchedOnDemand ==
    /\ \A i \in 1..Len(log) : log[i].status # "threw"
    /\ reply.op = "add" => reply.text # "Error: Markets not loaded"
    /\ \A g \in 1..Len(Grouped) : Grouped[g].text # "Error: Markets not loaded"

\* The "no positions" results of the three commands
NoPositionsTexts ==
    {"No positions found for this wallet", "No positions", "No positions found"}

\* C13: when the scan of an add-wallet, check or refresh-markets command
\* found the catalog empty, or had every one of its queries fail, what the
\* user is told about the wallet is an error, not a "no positions" result.
C13_TotalFailureIsSurfacedAsError ==
    /\ (reply.op = "add" /\ reply.allFailed) => reply.text \notin NoPositionsTexts
    /\ \A i \in 1..Len(log) :
          (log[i].by \in {"check", "refresh"}
             /\ (log[i].status = "threw" \/ (log[i].status = "done" /\ log[i].allFailed)))
          => \E g \in 1..Len(Grouped) :
                /\ Grouped[g].wallet = log[i].wallet
                /\ Grouped[g].text \notin NoPositionsTexts \cup {"lines"}

-----------------------------------------------------------------------------
(* Claims about a failing scan in the sweep (checked under SpecFailure) *)

\* The [chatId, wallet] pairs of the store, users and wallets in key order
RECURSIVE StoredItems(_, _)
StoredItems(users, order) ==
    IF order = <<>> THEN <<>>
    ELSE LET wallets == WalletKeys(users[Head(order)], "store")
         IN  [i \in 1..Len(wallets) |-> <<Head(order), wallets[i]>>]
             \o StoredItems(users, Tail(order))

-----------------------------------------------------------------------------
(* Claims about the stored thresholds *)

\* The step being taken belongs to add wallet, remove wallet, check,
\* refresh markets, the catalog refresh or the sweep
KeepsThresholdsStep ==
    \/ reply'.op \in {"add", "remove", "text:removewallet", "button:remove",
                      "button:remove:done", "check", "refresh"}
    \/ markets' # markets
    \/ SweepStep

\* C15: a step of add wallet, remove wallet (the last wallet included),
\* check, refresh markets, the catalog refresh or the sweep leaves the
\* stored warning and danger thresholds of every user and protocol as they
\* were.
C15_OnlySetThresholdChangesThresholds ==
    [][KeepsThresholdsStep =>
         \A u \in Users : Stored(db'[u]).settings = Stored(db[u]).settings]_vars

\* A stored threshold that was set is a positive number
PositiveThreshold(value) == value = Unset \/ Gt(value, Num(0))

\* The step being taken answers a request to set a threshold
SetsThreshold == reply'.op \in {"setwarning", "setdanger"}

-----------------------------------------------------------------------------
(* Claims about the address of an added wallet (checked under SpecAdd) *)

\* "0x" followed by exactly 40 hex characters
EvmShape(address) ==
    /\ Len(address) >= 2
    /\ SubSeq(address, 1, 2) = <<Run("0", 1), Run("x", 1)>>
    /\ \A i \in 3..Len(address) : address[i].c \in HexChars
    /\ Length(address) = 42

\* A base58 string of 32 to 44 characters
Base58Shape(address) ==
    /\ \A i \in 1..Len(address) : address[i].c \in Base58Chars
    /\ Length(address) >= 32 /\ Length(address) <= 44

\* The /add command of src/bot.js has just answered
AddAnswered == reply.op = "add" /\ "scanner" \in DOMAIN reply

\* The /add command of src/bot.js routes by the shape of the address and
\* rejects every other string without a scan and without a handler left in
\* flight that could write the user
AddCommandRoutesByShape ==
    AddAnswered =>
        /\ EvmShape(reply.address) => reply.scanner = "scanAaveMarketsForWallet"
        /\ Base58Shape(reply.address) => reply.scanner = "scanAllMarketsForWallet"
        /\ ~EvmShape(reply.address) /\ ~Base58Shape(reply.address) =>
               /\ reply.scanner = "none"
               /\ cmd.kind = "none"
               /\ reply.text \in {"Usage: /add <wallet_address>",
                                  "Unsupported wallet format"}

\* C17: adding a wallet routes by the shape of the address alone: "0x" and
\* 40 hex characters go to the Aave scanner, a base58 string of 32 to 44
\* characters goes to the Kamino scanner, and a string of neither shape is
\* rejected: no scanner is asked and no wallet is saved.  Stated for the
\* /add command and for the add route of the core service.
C17_AddressShapeDecidesRoute ==
    /\ AddCommandRoutesByShape
    /\ reply.op = "api:add" =>
          /\ EvmShape(reply.address) => reply.service = "aave"
          /\ Base58Shape(reply.address) => reply.service = "kamino"
          /\ ~EvmShape(reply.address) /\ ~Base58Shape(reply.address) =>
                 reply.service = "none" /\ ~reply.saved

\* The /add command has rejected a string of neither shape, has sent an
\* EVM address to the Aave scan and a base58 address to the Kamino scan
AddCommandRejects ==
    AddAnswered /\ ~EvmShape(reply.address) /\ ~Base58Shape(reply.address)
    /\ Length(reply.address) >= 32

AddCommandRoutesEvm == AddAnswered /\ EvmShape(reply.address) /\ cmd.kind = "add"

AddCommandRoutesBase58 == AddAnswered /\ Base58Shape(reply.address) /\ cmd.kind = "add"

-----------------------------------------------------------------------------
(* Claims about the positions of the Kamino scanner (checked under SpecParse) *)

\* The obligations the queries of the scan in flight have returned, in the
\* order the scan went through them
RECURSIVE Returned(_)
Returned(outcomes) ==
    IF outcomes = <<>> THEN <<>>
    ELSE (IF Head(outcomes).ok THEN Head(outcomes).obligations ELSE <<>>)
         \o Returned(Tail(outcomes))

\* The obligations of a list that satisfy a test on borrow and deposit
RECURSIVE Backed(_)
Backed(obligations) ==
    IF obligations = <<>> THEN <<>>
    ELSE (IF /\ Head(obligations).stats
             /\ Head(obligations).userTotalBorrow > 0
             /\ Head(obligations).userTotalDeposit > 0
          THEN <<Head(obligations)>> ELSE <<>>)
         \o Backed(Tail(obligations))

\* C18: in a full or targeted scan only an obligation with a strictly
\* positive borrow yields a Position, and one with zero borrow or with zero
\* deposit never does: the scan holds exactly one Position for each returned
\* obligation whose borrow and deposit are both positive.
C18_PositionNeedsBorrowAndDeposit ==
    scan.status \in {"running", "returned"} =>
        Len(scan.results) = Len(Backed(Returned(scan.outcomes)))

\* The obligations of a list with a strictly positive borrow
RECURSIVE Borrowing(_)
Borrowing(obligations) ==
    IF obligations = <<>> THEN <<>>
    ELSE (IF Head(obligations).stats /\ Head(obligations).userTotalBorrow > 0
          THEN <<Head(obligations)>> ELSE <<>>)
         \o Borrowing(Tail(obligations))

\* The part of C18 about the borrow alone: one Position for each returned
\* obligation with a strictly positive borrow, none for any other
PositionNeedsBorrow ==
    scan.status \in {"running", "returned"} =>
        Len(scan.results) = Len(Borrowing(Returned(scan.outcomes)))

\* C19: every Position a scan holds has ltv > 0 and liquidationLtv > 0
\* (a Position is produced only for a positive borrow).
C19_PositionPercentagesArePositive ==
    scan.status \in {"running", "returned"} =>
        \A i \in 1..Len(scan.results) :
            scan.results[i].ltv > 0 /\ scan.results[i].liquidationLtv > 0

\* The same for the obligations that have both a borrow and a deposit
BackedPercentagesArePositive ==
    (scan.status \in {"running", "returned"}
     /\ Len(Backed(Returned(scan.outcomes))) = Len(Returned(scan.outcomes))) =>
        \A i \in 1..Len(scan.results) :
            scan.results[i].ltv > 0 /\ scan.results[i].liquidationLtv > 0

\* p hundredths is the fraction n (in millionths) times 100 to two decimals
IsRendering(p, n) == p * 100 - 50 <= n /\ n < p * 100 + 50

\* h is liquidationLtv / ltv to two decimals (Infinity or NaN for ltv = 0)
IsRatio(h, liquidationLtv, ltv) ==
    IF ltv = 0
    THEN h.kind = (IF liquidationLtv = 0 THEN "nan" ELSE "inf")
    ELSE /\ h.kind = "num"
         /\ 2 * h.v * ltv - ltv <= 200 * liquidationLtv
         /\ 200 * liquidationLtv < 2 * h.v * ltv + ltv

\* C20: for a Kamino obligation with a positive borrow the Position's ltv and
\* liquidationLtv are the source fractions times 100 to two decimals and its
\* healthFactor is liquidationLtv / ltv to two decimals; loanToValue 0.60 and
\* liquidationLtv 0.80 give "60.00", "80.00" and 1.33, and a healthFactor of
\* 1.33 is shown as WARNING under the default thresholds.
C20_KaminoPositionValues ==
    /\ scan.status \in {"running", "returned"} =>
          LET obls == Borrowing(Returned(scan.outcomes))
          IN  /\ Len(scan.results) = Len(obls)
              /\ \A i \in 1..Len(obls) :
                    LET pos == scan.results[i]
                        obl == obls[i]
                    IN  /\ IsRendering(pos.ltv, obl.loanToValue)
                        /\ IsRendering(pos.liquidationLtv, obl.liquidationLtv)
                        /\ IsRatio(pos.healthFactor, obl.liquidationLtv, obl.loanToValue)
                        /\ (obl.loanToValue = 600000 /\ obl.liquidationLtv = 800000) =>
                              /\ pos.ltv = 6000
                              /\ pos.liquidationLtv = 8000
                              /\ pos.healthFactor = Num(133)
    /\ (/\ rendered.protocol = "kamino"
        /\ rendered.settings = NoSettings
        /\ rendered.line.healthFactor = Num(133)) => rendered.line.prefix = "WARNING"

\* C20 witness: a scan has returned the Position of an obligation with
\* loanToValue 0.60 and liquidationLtv 0.80 after one whose percentages have
\* more than two decimals, and it has been formatted for a user without
\* stored thresholds
C20_Witness ==
    /\ scan.status = "returned"
    /\ Borrowing(Returned(scan.outcomes)) = <<OblFine, OblRisky>>
    /\ scan.results[1].ltv = 1235
    /\ scan.results[2].healthFactor = Num(133)
    /\ rendered.protocol = "kamino"
    /\ rendered.settings = NoSettings
    /\ rendered.line.ltv = scan.results[2].ltv
    /\ rendered.line.healthFactor = scan.results[2].healthFactor
    /\ rendered.line.prefix = "WARNING"

-----------------------------------------------------------------------------
(* Claims about the Aave scanner (checked under SpecAave) *)

AaveScan == scan.fn = "scanAaveMarketsForWallet"

\* The positions a scan holds for the network of its i-th outcome
NetworkPositions(i) ==
    IF scan.outcomes[i].ok
    THEN getAavePositionsForNetwork(AaveNetworks[i], scan.outcomes[i].accountData,
                                    scan.outcomes[i].userReserves,
                                    scan.outcomes[i].cachedMarkets)
    ELSE <<>>

\* A network whose query resolved gives no position when the total debt is
\* zero, the total collateral is zero or the health factor is not positive
UnusableAccountGivesNothing ==
    AaveScan =>
        \A i \in 1..Len(scan.outcomes) :
            LET acc == scan.outcomes[i].accountData
            IN  (/\ scan.outcomes[i].ok
                 /\ \/ acc.totalDebtBase = 0
                    \/ acc.totalCollateralBase = 0
                    \/ acc.healthFactor <= 0) => NetworkPositions(i) = <<>>

\* C21: for each Aave network the scanner returns no position (and no
\* error) when the total debt is zero, the total collateral is zero or the
\* reported health factor is not a finite positive number; hence every Aave
\* Position returned carries a finite, strictly positive healthFactor.
C21_AavePositionHealthFactorPositive ==
    /\ UnusableAccountGivesNothing
    /\ AaveScan =>
          \A i \in 1..Len(scan.results) :
              /\ IsFinite(scan.results[i].healthFactor)
              /\ Gt(scan.results[i].healthFactor, Num(0))

RECURSIVE ConcatNetworks(_)
ConcatNetworks(n) ==
    IF n = 0 THEN <<>> ELSE ConcatNetworks(n - 1) \o NetworkPositions(n)

\* C22: the Aave scan never throws; what it holds, and returns, is the
\* concatenation in network order (Ethereum, Arbitrum, Base) of the
\* positions of exactly the networks whose query succeeded; a network on
\* which every RPC url failed contributes nothing and changes nothing of
\* what the others contribute.
C22_AaveScanIsConcatOfSuccessful ==
    AaveScan =>
        /\ scan.status \in {"running", "returned"}
        /\ scan.results = ConcatNetworks(Len(scan.outcomes))
        /\ scan.status = "returned" <=> Len(scan.outcomes) = Len(AaveNetworks)
        /\ \A i \in 1..Len(scan.outcomes) :
              ~scan.outcomes[i].ok => scan.outcomes[i].url = RpcUrlCount[AaveNetworks[i]]

\* C22 witness: the scan has returned; Ethereum gave a position, every url
\* of Arbitrum failed, Base gave a position, and the result is the two
\* positions in that order
C22_Witness ==
    /\ AaveScan
    /\ scan.status = "returned"
    /\ scan.outcomes[1].ok /\ ~scan.outcomes[2].ok /\ scan.outcomes[3].ok
    /\ Len(scan.results) = 2
    /\ scan.results[1].market = "Aave V3 Ethereum USDC"
    /\ scan.results[2].market = "Aave V3 Base USDC"

-----------------------------------------------------------------------------
(* Claims about the explicit check (checked under SpecCore) *)

\* C23: an explicit check runs, for each wallet of the user, the targeted
\* scan over the markets cached for the wallet, so a Kamino wallet that was
\* added with an open position is reported with a position by a later check
\* while the position stays open and the market queries succeed (as they do
\* in every behaviour of SpecCore).
C23_CheckReportsOpenPosition ==
    reply.op = "api:check" =>
        \A i \in 1..Len(reply.results) :
            reply.results[i].protocol = "kamino" =>
                /\ ~reply.results[i].error
                /\ reply.results[i].positions # <<>>

-----------------------------------------------------------------------------
(* Claims about the RPC fallback (checked under SpecAave) *)

\* The urls tried for the network the scan is on, or was on last
TriedNetwork ==
    IF scan.url = 1 THEN scan.network - 1 ELSE scan.network

\* C24: an Aave RPC query tries the urls of the network in their listed
\* order, each at most once; the result is that of the first url on which
\* the whole call succeeded and no url is tried after a success; when every
\* url failed, the error raised is that of the last url tried.
C24_RpcFallbackInOrder ==
    (AaveScan /\ scan.tried # <<>>) =>
        /\ Len(scan.tried) <= RpcUrlCount[AaveNetworks[TriedNetwork]]
        /\ \A i \in 1..Len(scan.tried) :
              /\ scan.tried[i].url = i
              /\ scan.tried[i].ok => i = Len(scan.tried)
        /\ scan.url = 1 =>
              LET outcome == scan.outcomes[TriedNetwork]
                  last == scan.tried[Len(scan.tried)]
              IN  /\ outcome.ok = last.ok
                  /\ outcome.url = last.url
                  /\ ~outcome.ok =>
                        Len(scan.tried) = RpcUrlCount[AaveNetworks[TriedNetwork]]

\* C24 witness: the query of Ethereum has failed on its four urls and has
\* thrown the error of the fourth; the query of Arbitrum has failed on two
\* urls and has given a position from the third
C24_Witness ==
    /\ AaveScan
    /\ Len(scan.outcomes) = 2
    /\ ~scan.outcomes[1].ok /\ scan.outcomes[1].url = 4
    /\ scan.outcomes[2].ok /\ scan.outcomes[2].url = 3
    /\ scan.tried = <<[url |-> 1, ok |-> FALSE], [url |-> 2, ok |-> FALSE],
                      [url |-> 3, ok |-> TRUE]>>
    /\ Len(scan.results) = 1

-----------------------------------------------------------------------------
(* Claims about the timers of the sweep (checked under SpecTimers) *)

\* C27: at most one background sweep is in progress at any time: no call of
\* checkAllUsers() is made by a timer while an earlier one is still waiting
\* for a scan, so no two runs wait for a scan at the same moment.
C27_AtMostOneSweepInProgress ==
    \A s1, s2 \in DOMAIN sweeps :
        (sweeps[s1].pc = "await" /\ sweeps[s2].pc = "await") => s1 = s2

-----------------------------------------------------------------------------
(* Claims about what /refreshmarkets caches (checked under SpecCheck) *)

\* The step ends the full scan of a Kamino wallet by /refreshmarkets, and
\* every market query of that scan failed
RefreshScanAllFailed ==
    /\ log' # <<>>
    /\ log'[1].by = "refresh"
    /\ log'[1].status = "done"
    /\ log'[1].protocol = "kamino"
    /\ log'[1].allFailed

\* C28: a refresh-markets run never removes from the cached list of a wallet
\* a market whose query failed: when every query of the scan failed, no
\* market was queried successfully, so the list the wallet had cached before
\* the run is the list it has after it.
C28_RefreshKeepsFailedMarkets ==
    [][RefreshScanAllFailed =>
          LET call == log'[1]
          IN  Holds(db'[call.chatId], "store", call.wallet) =>
                 db'[call.chatId][call.wallet].val["store"].markets = call.marketNames]_vars

-----------------------------------------------------------------------------
(* Claims about the sweep and the Risk Evaluator (checked under SpecNotify) *)

\* The positions of a resolved scan the Risk Evaluator renders as WARNING or
\* DANGER under the thresholds the sweep tests them against
AtRisk(entry) ==
    {i \in 1..Len(entry.positions) :
        Prefix(entry.positions[i].healthFactor, entry.thresholds)
            \in {"WARNING", "DANGER"}}

\* C29: the sweep and the Risk Evaluator agree for every threshold setting:
\* when a scan of the sweep resolves, the wallet is notified if and only if
\* at least one of its positions is WARNING or DANGER under the same
\* thresholds.
C29_NotifiedIffAtRisk ==
    SweepResolved => (sent # <<>> <=> AtRisk(log[1]) # {})

-----------------------------------------------------------------------------
(* A claim about the two protocols in one refresh (checked under           *)
(* SpecRefresh)                                                            *)

\* C30: the catalog refresh is isolated across protocols: in a background
\* tick and at start-up, however the Kamino catalog fetch ends (also when it
\* fails), the run goes on to fetch the Aave catalogs, from the first
\* network.
C30_KaminoFailureKeepsAaveFetch ==
    [][(refresh.pc = "kamino" /\ refresh' # refresh) =>
          /\ refresh'.pc = "aave"
          /\ refresh'.network = 1]_vars

=============================================================================
